---- MODULE Spec2Model ----
(***************************************************************************)
(* Model of the HECVAT assessment scripts:                                 *)
(*   generate_delta.py   : generate_delta                                  *)
(*   generate_summary.py : compute_scores, analyze_assessment,             *)
(*                         compute_confidence_adjusted_score               *)
(*   parse_hecvat.py     : parse_hecvat                                    *)
(*                                                                         *)
(* Representation.                                                         *)
(*  - A Python str is a sequence of one-character strings, so that strip,  *)
(*    rsplit and the lexicographic order used by sorted() are computed     *)
(*    character by character.                                              *)
(*  - A dict is a sequence of <<key, value>> pairs with distinct keys, in  *)
(*    insertion order (the iteration order of a Python dict).              *)
(*  - An answer record is a record over all fields; a key the JSON object  *)
(*    does not have holds Absent, a JSON null holds None.                  *)
(*  - A percentage rounded to one decimal is held as an integer number of  *)
(*    tenths (82.5 is 825); a value rounded to two decimals as an integer  *)
(*    number of hundredths.  Quotients are exact rationals num/den and     *)
(*    round() rounds half to even, as Python's round does on the values    *)
(*    that are exactly representable.                                      *)
(***************************************************************************)
EXTENDS Integers, Sequences, FiniteSets, TLC

VARIABLES
    before_answers,   \* generate_delta: before.get("answers", {})
    after_answers,    \* generate_delta: after.get("answers", {})
    delta_out,        \* generate_delta: what the run produced, NotRun before
    category_stats,   \* compute_scores: its first argument
    weights,          \* compute_scores / generate_delta: category -> weight
    scores,           \* compute_scores: the returned dict, NotRun before
    assessment,       \* generate_summary.py: assessment.get("answers", {})
    confidence,       \* compute_confidence_adjusted_score: its return value
    analysis,         \* analyze_assessment: the returned dict, NotRun before
    sheet_rows,       \* parse_hecvat: first cell of each row from row 3 on
    parsed,           \* parse_hecvat: the result dict, NotRun before
    summary,          \* generate_summary: the report it wrote, NotRun before
    workbook,         \* generate_report: the template workbook as loaded
    report            \* generate_report: the workbook it saved, NotRun before

\* the variables of each script
deltaVars == <<before_answers, after_answers, delta_out>>
scoreVars == <<category_stats, weights, scores>>
summaryVars == <<assessment, confidence, analysis>>
parseVars == <<sheet_rows, parsed>>
outputVars == <<summary, workbook, report>>

vars == <<deltaVars, scoreVars, summaryVars, parseVars, outputVars>>

NotRun == [run |-> FALSE]

(***************************************************************************)
(* Bounds of the checked input space.                                      *)
(***************************************************************************)
\* records in the before and the after snapshot together (free-form family)
MaxTotal == 3
\* entries of the tally map handed to compute_scores
MaxCats == 2
\* largest yes (and no) count of one category handed to compute_scores
MaxCount == 2
\* free-form answer records handed to analyze_assessment and to
\* compute_confidence_adjusted_score
MaxAnswers == 2
\* rows of the Questions sheet below the header handed to parse_hecvat
MaxRows == 3

(***************************************************************************)
(* Strings.                                                                *)
(***************************************************************************)
Absent == <<"<absent>">>
None == <<"<None>">>

sEmpty == <<>>
sYes == <<"Y", "e", "s">>
sNo == <<"N", "o">>
sNoPadded == <<" ", "N", "o", " ">>
sNSlashA == <<"N", "/", "A">>
sNA == <<"N", "A">>
sDash == "-"

sAAAI == <<"A", "A", "A", "I">>
sAPPL == <<"A", "P", "P", "L">>
sGNRL == <<"G", "N", "R", "L">>
qAAAI01 == <<"A", "A", "A", "I", "-", "0", "1">>
qAAAI02 == <<"A", "A", "A", "I", "-", "0", "2">>
qAAAI03 == <<"A", "A", "A", "I", "-", "0", "3">>
qAAAI04 == <<"A", "A", "A", "I", "-", "0", "4">>
qAPPL01 == <<"A", "P", "P", "L", "-", "0", "1">>

\* the code point of a character (ord), for the characters the model uses
CharCode(c) ==
    CASE c = " " -> 32
      [] c = "-" -> 45
      [] c = "/" -> 47
      [] c = "0" -> 48
      [] c = "1" -> 49
      [] c = "2" -> 50
      [] c = "3" -> 51
      [] c = "4" -> 52
      [] c = "5" -> 53
      [] c = "A" -> 65
      [] c = "C" -> 67
      [] c = "D" -> 68
      [] c = "E" -> 69
      [] c = "F" -> 70
      [] c = "G" -> 71
      [] c = "H" -> 72
      [] c = "I" -> 73
      [] c = "L" -> 76
      [] c = "M" -> 77
      [] c = "N" -> 78
      [] c = "O" -> 79
      [] c = "P" -> 80
      [] c = "Q" -> 81
      [] c = "R" -> 82
      [] c = "S" -> 83
      [] c = "T" -> 84
      [] c = "U" -> 85
      [] c = "V" -> 86
      [] c = "Y" -> 89
      [] c = "e" -> 101
      [] c = "o" -> 111
      [] c = "s" -> 115

IsSpace(c) == c = " "

\* str < str: lexicographic on code points, a proper prefix is smaller
RECURSIVE StrLess(_, _)
StrLess(s, t) ==
    IF s = <<>> THEN t # <<>>
    ELSE IF t = <<>> THEN FALSE
    ELSE IF Head(s) = Head(t) THEN StrLess(Tail(s), Tail(t))
    ELSE CharCode(Head(s)) < CharCode(Head(t))

RECURSIVE LStrip(_)
LStrip(s) == IF s # <<>> /\ IsSpace(Head(s)) THEN LStrip(Tail(s)) ELSE s

RECURSIVE RStrip(_)
RStrip(s) ==
    IF s # <<>> /\ IsSpace(s[Len(s)]) THEN RStrip(SubSeq(s, 1, Len(s) - 1)) ELSE s

\* str.strip()
Strip(s) == RStrip(LStrip(s))

\* "-" in qid
HasDash(s) == \E i \in 1..Len(s) : s[i] = sDash

\* qid.rsplit("-", 1)[0] if "-" in qid else qid
CategoryOf(qid) ==
    IF HasDash(qid)
    THEN LET last == CHOOSE i \in 1..Len(qid) :
                        /\ qid[i] = sDash
                        /\ \A j \in (i + 1)..Len(qid) : qid[j] # sDash
         IN SubSeq(qid, 1, last - 1)
    ELSE qid

(***************************************************************************)
(* Dicts and answer records.                                               *)
(***************************************************************************)
EmptyRecord ==
    [answer |-> Absent, additional_info |-> Absent, evidence |-> Absent,
     fix_type |-> Absent, evidence_quality |-> Absent]

AnswerRecord(ans) == [EmptyRecord EXCEPT !.answer = ans]

Keys(d) == {d[i][1] : i \in 1..Len(d)}

HasKey(d, k) == \E i \in 1..Len(d) : d[i][1] = k

\* d.get(k, default)
DictGet(d, k, default) ==
    IF HasKey(d, k) THEN d[CHOOSE i \in 1..Len(d) : d[i][1] = k][2] ELSE default

\* answers.get(qid, {}).get("answer", ""), before .strip() is applied
RawAnswer(answers, qid) ==
    LET rec == DictGet(answers, qid, EmptyRecord)
    IN IF rec.answer = Absent THEN sEmpty ELSE rec.answer

\* answers.get(qid, {}).get("answer", "").strip()
TrimmedAnswer(answers, qid) == Strip(RawAnswer(answers, qid))

\* sorted(S) for a set of str
RECURSIVE Sorted(_)
Sorted(S) ==
    IF S = {} THEN <<>>
    ELSE LET m == CHOOSE x \in S : \A y \in S \ {x} : StrLess(x, y)
         IN <<m>> \o Sorted(S \ {m})

(***************************************************************************)
(* Rounding.                                                               *)
(***************************************************************************)
\* the integer nearest to num/den (num >= 0, den > 0), a tie going to the
\* even neighbour: round() on an exactly represented quotient
RoundHalfEven(num, den) ==
    LET q == num \div den
        r == num % den
    IN IF 2 * r < den THEN q
       ELSE IF 2 * r > den THEN q + 1
       ELSE IF q % 2 = 0 THEN q ELSE q + 1

\* round(yes / total * 100, 1) if total > 0 else 0, in tenths
Pct1(yes, total) == IF total > 0 THEN RoundHalfEven(1000 * yes, total) ELSE 0

(***************************************************************************)
(* generate_delta: classification of the transitions (lines 63-87).        *)
(***************************************************************************)
YesNo == {sYes, sNo}

\* the keys of d in insertion order
RECURSIVE KeySeq(_)
KeySeq(d) == IF d = <<>> THEN <<>> ELSE <<Head(d)[1]>> \o KeySeq(Tail(d))

\* the elements of seq that are not in S, in order
RECURSIVE Without(_, _)
Without(seq, S) ==
    IF seq = <<>> THEN <<>>
    ELSE (IF Head(seq) \in S THEN <<>> ELSE <<Head(seq)>>) \o Without(Tail(seq), S)

\* a bug: the union of the keys is walked in insertion order, sorted() forgotten
all_qids_unsorted(before, after) ==
    KeySeq(before) \o Without(KeySeq(after), Keys(before))

\* all_qids = sorted(set(list(before_answers.keys()) + list(after_answers.keys())))
all_qids(before, after) == Sorted(Keys(before) \cup Keys(after))

\* a bug: every answer that moves away from "No" is listed as an improvement
IsImprovementAnyChange(b, a) == b = sNo /\ a # sNo

\* b == "No" and a == "Yes"
IsImprovement(b, a) == b = sNo /\ a = sYes

\* a bug: every answer that moves away from "Yes" is listed as a regression
IsRegressionAnyChange(b, a) == b = sYes /\ a # sYes

\* b == "Yes" and a == "No"
IsRegression(b, a) == b = sYes /\ a = sNo

\* a bug (or a "fix"): "NA" without the slash also counts as not yet assessed
IsNewlyAssessedWithNA(b, a) == b \in {sEmpty, sNSlashA, sNA} /\ a \in {sYes, sNo}

\* b in ("", "N/A") and a in ("Yes", "No")
IsNewlyAssessed(b, a) == b \in {sEmpty, sNSlashA} /\ a \in {sYes, sNo}

\* if b == a: count an unchanged Yes or an unchanged No, then continue
UnchangedStep(acc, a) ==
    IF a = sYes THEN [acc EXCEPT !.unchanged_yes = @ + 1]
    ELSE IF a = sNo THEN [acc EXCEPT !.unchanged_no = @ + 1]
    ELSE acc

\* a bug: an improvement is reported as newly assessed too
ClassifyStepImprovementAlsoNew(acc, qid, b, a) ==
    IF b = a THEN UnchangedStep(acc, a)
    ELSE IF IsImprovement(b, a)
         THEN [acc EXCEPT !.improvements = Append(@, qid),
                          !.newly_assessed = Append(@, <<qid, a>>)]
    ELSE IF IsRegression(b, a)
         THEN [acc EXCEPT !.regressions = Append(@, qid)]
    ELSE IF IsNewlyAssessed(b, a)
         THEN [acc EXCEPT !.newly_assessed = Append(@, <<qid, a>>)]
    ELSE acc

\* one iteration of the first loop over all_qids
ClassifyStep(acc, qid, b, a) ==
    IF b = a THEN UnchangedStep(acc, a)
    ELSE IF IsImprovement(b, a)
         THEN [acc EXCEPT !.improvements = Append(@, qid)]
    ELSE IF IsRegression(b, a)
         THEN [acc EXCEPT !.regressions = Append(@, qid)]
    ELSE IF IsNewlyAssessed(b, a)
         THEN [acc EXCEPT !.newly_assessed = Append(@, <<qid, a>>)]
    ELSE acc

ClassifyInit ==
    [improvements |-> <<>>, regressions |-> <<>>, newly_assessed |-> <<>>,
     unchanged_yes |-> 0, unchanged_no |-> 0]

RECURSIVE ClassifyLoop(_, _, _, _)
ClassifyLoop(acc, qids, before, after) ==
    IF qids = <<>> THEN acc
    ELSE ClassifyLoop(
            ClassifyStep(acc, Head(qids),
                         TrimmedAnswer(before, Head(qids)),
                         TrimmedAnswer(after, Head(qids))),
            Tail(qids), before, after)

(***************************************************************************)
(* generate_delta: per-category tallies (lines 89-104).                    *)
(***************************************************************************)
ZeroDelta == [before_yes |-> 0, before_total |-> 0, after_yes |-> 0, after_total |-> 0]

NoCatDeltas == [c \in {} |-> ZeroDelta]

\* a bug: after_yes is incremented for every assessed after answer
CatDeltaStepYesAlways(acc, qid, b, a) ==
    LET cat == CategoryOf(qid)
        cur == IF cat \in DOMAIN acc THEN acc[cat] ELSE ZeroDelta
        withB == IF b \in YesNo
                 THEN [cur EXCEPT !.before_total = @ + 1,
                                  !.before_yes = @ + (IF b = sYes THEN 1 ELSE 0)]
                 ELSE cur
        withA == IF a \in YesNo
                 THEN [withB EXCEPT !.after_total = @ + 1, !.after_yes = @ + 1]
                 ELSE withB
    IN IF b \in YesNo \/ a \in YesNo
       THEN [c \in (DOMAIN acc) \cup {cat} |-> IF c = cat THEN withA ELSE acc[c]]
       ELSE acc

\* a bug: an N/A after answer enters after_total
CatDeltaStepTotalCountsNA(acc, qid, b, a) ==
    LET cat == CategoryOf(qid)
        cur == IF cat \in DOMAIN acc THEN acc[cat] ELSE ZeroDelta
        withB == IF b \in YesNo
                 THEN [cur EXCEPT !.before_total = @ + 1,
                                  !.before_yes = @ + (IF b = sYes THEN 1 ELSE 0)]
                 ELSE cur
        withA == IF a \in YesNo \cup {sNSlashA}
                 THEN [withB EXCEPT !.after_total = @ + 1,
                                    !.after_yes = @ + (IF a = sYes THEN 1 ELSE 0)]
                 ELSE withB
    IN IF b \in YesNo \/ a \in YesNo \cup {sNSlashA}
       THEN [c \in (DOMAIN acc) \cup {cat} |-> IF c = cat THEN withA ELSE acc[c]]
       ELSE acc

\* one iteration of the second loop; cat_deltas is a defaultdict, an entry
\* exists from the first time the loop body indexes it
CatDeltaStep(acc, qid, b, a) ==
    LET cat == CategoryOf(qid)
        cur == IF cat \in DOMAIN acc THEN acc[cat] ELSE ZeroDelta
        withB == IF b \in YesNo
                 THEN [cur EXCEPT !.before_total = @ + 1,
                                  !.before_yes = @ + (IF b = sYes THEN 1 ELSE 0)]
                 ELSE cur
        withA == IF a \in YesNo
                 THEN [withB EXCEPT !.after_total = @ + 1,
                                    !.after_yes = @ + (IF a = sYes THEN 1 ELSE 0)]
                 ELSE withB
    IN IF b \in YesNo \/ a \in YesNo
       THEN [c \in (DOMAIN acc) \cup {cat} |-> IF c = cat THEN withA ELSE acc[c]]
       ELSE acc

RECURSIVE CatDeltaLoop(_, _, _, _)
CatDeltaLoop(acc, qids, before, after) ==
    IF qids = <<>> THEN acc
    ELSE CatDeltaLoop(
            CatDeltaStep(acc, Head(qids),
                         TrimmedAnswer(before, Head(qids)),
                         TrimmedAnswer(after, Head(qids))),
            Tail(qids), before, after)

(***************************************************************************)
(* generate_delta: the Category Score Deltas table (lines 154-169).        *)
(***************************************************************************)
\* cats_with_change
CatsWithChange(cd) ==
    {c \in DOMAIN cd : cd[c].before_total > 0 \/ cd[c].after_total > 0}

\* a bug: the delta is reported as a magnitude, its direction lost
DeltaOfUnsigned(d) ==
    LET diff == Pct1(d.after_yes, d.after_total) - Pct1(d.before_yes, d.before_total)
    IN IF diff < 0 THEN -diff ELSE diff

\* a bug: the before percentage is taken over the after total
DeltaOfWrongTotal(d) == Pct1(d.after_yes, d.after_total) - Pct1(d.before_yes, d.after_total)

\* delta = round(a_pct - b_pct, 1), in tenths: both operands are already
\* rounded to one decimal
DeltaOf(d) == Pct1(d.after_yes, d.after_total) - Pct1(d.before_yes, d.before_total)

\* a bug: the zero-delta filter is forgotten
RowEmittedAlways(d) == TRUE

\* if delta != 0: the row is appended
RowEmitted(d) == DeltaOf(d) # 0

DeltaRow(cat, d) ==
    [cat |-> cat,
     before_yes |-> d.before_yes, before_total |-> d.before_total,
     b_pct |-> Pct1(d.before_yes, d.before_total),
     after_yes |-> d.after_yes, after_total |-> d.after_total,
     a_pct |-> Pct1(d.after_yes, d.after_total),
     delta |-> DeltaOf(d)]

\* for cat in sorted(cats_with_change.keys()): ...
RECURSIVE DeltaRows(_, _)
DeltaRows(cats, cd) ==
    IF cats = <<>> THEN <<>>
    ELSE (IF RowEmitted(cd[Head(cats)])
          THEN <<DeltaRow(Head(cats), cd[Head(cats)])>> ELSE <<>>)
         \o DeltaRows(Tail(cats), cd)

(***************************************************************************)
(* generate_delta as a whole.                                              *)
(***************************************************************************)
\* .strip() on a JSON null answer raises AttributeError (lines 72-73)
StripRaises(before, after) ==
    \E q \in Keys(before) \cup Keys(after) :
        RawAnswer(before, q) = None \/ RawAnswer(after, q) = None

\* .get("additional_info", "")[:80] on a JSON null raises TypeError
\* (lines 129, 140)
DetailRaises(listed, after) ==
    \E i \in 1..Len(listed) :
        DictGet(after, listed[i], EmptyRecord).additional_info = None

GenerateDeltaResult(before, after) ==
    IF StripRaises(before, after) THEN [run |-> TRUE, raised |-> TRUE]
    ELSE LET qids == all_qids(before, after)
             cls == ClassifyLoop(ClassifyInit, qids, before, after)
             cd == CatDeltaLoop(NoCatDeltas, qids, before, after)
         IN IF DetailRaises(cls.improvements \o cls.regressions, after)
            THEN [run |-> TRUE, raised |-> TRUE]
            ELSE [run |-> TRUE, raised |-> FALSE,
                  improvements |-> cls.improvements,
                  regressions |-> cls.regressions,
                  newly_assessed |-> cls.newly_assessed,
                  unchanged_yes |-> cls.unchanged_yes,
                  unchanged_no |-> cls.unchanged_no,
                  cat_deltas |-> cd,
                  has_table |-> CatsWithChange(cd) # {},
                  rows |-> DeltaRows(Sorted(CatsWithChange(cd)), cd)]

generate_delta ==
    /\ delta_out = NotRun
    /\ delta_out' = GenerateDeltaResult(before_answers, after_answers)
    /\ UNCHANGED <<before_answers, after_answers, scoreVars, summaryVars, parseVars, outputVars>>

(***************************************************************************)
(* Inputs of generate_delta.                                               *)
(***************************************************************************)
\* the dicts with exactly n entries, keys from K, values from V, in every
\* insertion order
RECURSIVE DictsOfLen(_, _, _)
DictsOfLen(K, V, n) ==
    IF n = 0 THEN {<<>>}
    ELSE UNION {{<<<<k, v>>>> \o d : v \in V, d \in DictsOfLen(K \ {k}, V, n - 1)} : k \in K}

DictsUpTo(K, V, n) == UNION {DictsOfLen(K, V, i) : i \in 0..n}

FreeQids == {qAAAI01, qAAAI02, qAPPL01}

FreeRecords ==
    {AnswerRecord(v) : v \in {sYes, sNo, sNoPadded, sNSlashA, sNA}}

\* free-form snapshots: any answer value, any key order, few records
FreeInputs ==
    UNION {DictsOfLen(FreeQids, FreeRecords, i)
             \X DictsUpTo(FreeQids, FreeRecords, MaxTotal - i) : i \in 0..MaxTotal}

\* snapshots of at most one record, whose answer may be "" or lack its key
BlankInputs ==
    LET one == DictsUpTo(FreeQids,
                         FreeRecords \cup {AnswerRecord(sEmpty), EmptyRecord}, 1)
    IN one \X one

TallyQids == <<qAAAI01, qAAAI02, qAAAI03, qAPPL01>>

\* the dict that answers the TallyQids selected by f, inserted in list order
RECURSIVE TallyDict(_, _)
TallyDict(f, i) ==
    IF i > Len(TallyQids) THEN <<>>
    ELSE (IF f[i] = sEmpty THEN <<>> ELSE <<<<TallyQids[i], AnswerRecord(f[i])>>>>)
         \o TallyDict(f, i + 1)

\* the same dict with its keys inserted in the opposite order
RECURSIVE Reversed(_)
Reversed(d) == IF d = <<>> THEN <<>> ELSE Append(Reversed(Tail(d)), Head(d))

TallyDicts ==
    LET asc == {TallyDict(f, 1) : f \in [1..Len(TallyQids) -> {sEmpty, sYes, sNo}]}
    IN asc \cup {Reversed(d) : d \in asc}

\* fully assessed snapshots: Yes/No answers only, up to three per category,
\* keys in ascending or in descending insertion order
TallyInputs == TallyDicts \X TallyDicts

DeltaInputs == FreeInputs \cup BlankInputs \cup TallyInputs

InitDelta ==
    /\ \E p \in DeltaInputs : before_answers = p[1] /\ after_answers = p[2]
    /\ delta_out = NotRun
    /\ category_stats = <<>>
    /\ weights = <<>>
    /\ scores = NotRun
    /\ assessment = <<>>
    /\ confidence = NotRun
    /\ analysis = NotRun
    /\ sheet_rows = <<>>
    /\ parsed = NotRun
    /\ summary = NotRun
    /\ workbook = <<>>
    /\ report = NotRun

NextDelta == generate_delta

SpecDelta == InitDelta /\ [][NextDelta]_vars

(***************************************************************************)
(* Python float arithmetic (IEEE 754 binary64, round to nearest, ties to   *)
(* even) for the values compute_scores works on: non-negative, far from    *)
(* overflow and underflow.                                                 *)
(* A natural number of any size is a sequence of limbs, least significant  *)
(* first, without leading zero limbs (0 is the empty sequence); a float is *)
(* a 53-bit natural m and an exponent e, standing for m * 2^e, or zero.    *)
(***************************************************************************)
\* the limbs are the digits in base 2^15
LimbBits == 15
LimbBase == 32768

\* bits of the significand of a binary64
MantissaBits == 53

RECURSIVE Pow2(_)
Pow2(k) == IF k = 0 THEN 1 ELSE 2 * Pow2(k - 1)

RECURSIVE BigNorm(_)
BigNorm(n) ==
    IF n # <<>> /\ n[Len(n)] = 0 THEN BigNorm(SubSeq(n, 1, Len(n) - 1)) ELSE n

RECURSIVE BigOfInt(_)
BigOfInt(k) == IF k = 0 THEN <<>> ELSE <<k % LimbBase>> \o BigOfInt(k \div LimbBase)

RECURSIVE IntOfBig(_)
IntOfBig(n) == IF n = <<>> THEN 0 ELSE Head(n) + LimbBase * IntOfBig(Tail(n))

RECURSIVE BigMulCarry(_, _, _)
BigMulCarry(n, k, carry) ==
    IF n = <<>> THEN BigOfInt(carry)
    ELSE LET t == Head(n) * k + carry
         IN <<t % LimbBase>> \o BigMulCarry(Tail(n), k, t \div LimbBase)

\* n * k for 0 <= k < 2^15
BigMulSmall(n, k) == BigNorm(BigMulCarry(n, k, 0))

RECURSIVE BigAddCarry(_, _, _)
BigAddCarry(a, b, carry) ==
    IF a = <<>> /\ b = <<>> THEN BigOfInt(carry)
    ELSE LET x == IF a = <<>> THEN 0 ELSE Head(a)
             y == IF b = <<>> THEN 0 ELSE Head(b)
             t == x + y + carry
         IN <<t % LimbBase>>
              \o BigAddCarry(IF a = <<>> THEN <<>> ELSE Tail(a),
                             IF b = <<>> THEN <<>> ELSE Tail(b),
                             t \div LimbBase)

BigAdd(a, b) == BigAddCarry(a, b, 0)

\* long division of the top i limbs of n by d, 0 < d < 2^15
RECURSIVE BigDivTop(_, _, _)
BigDivTop(n, d, i) ==
    IF i = 0 THEN [q |-> <<>>, r |-> 0]
    ELSE LET prev == BigDivTop(n, d, i - 1)
             t == prev.r * LimbBase + n[Len(n) - i + 1]
         IN [q |-> <<t \div d>> \o prev.q, r |-> t % d]

\* quotient and remainder of n by d
BigDivSmall(n, d) ==
    LET all == BigDivTop(n, d, Len(n)) IN [q |-> BigNorm(all.q), r |-> all.r]

\* n * 2^s
BigShiftLeft(n, s) ==
    IF n = <<>> THEN <<>>
    ELSE [i \in 1..(s \div LimbBits) |-> 0] \o BigMulSmall(n, Pow2(s % LimbBits))

\* n \div 2^s, and whether a nonzero remainder was dropped
BigShiftRight(n, s) ==
    LET a == s \div LimbBits
        low == SubSeq(n, 1, IF a < Len(n) THEN a ELSE Len(n))
        high == SubSeq(n, a + 1, Len(n))
        dv == BigDivSmall(high, Pow2(s % LimbBits))
    IN [q |-> dv.q,
        sticky |-> dv.r # 0 \/ \E i \in 1..Len(low) : low[i] # 0]

RECURSIVE SmallBitLen(_)
SmallBitLen(x) == IF x = 0 THEN 0 ELSE 1 + SmallBitLen(x \div 2)

BigBitLen(n) ==
    IF n = <<>> THEN 0 ELSE LimbBits * (Len(n) - 1) + SmallBitLen(n[Len(n)])

BigIsOdd(n) == n # <<>> /\ n[1] % 2 = 1

\* n \div 2^s rounded to nearest, ties to even, where sticky tells that the
\* exact value lies strictly above n
BigRoundShift(n, s, sticky) ==
    IF s = 0 THEN n
    ELSE LET t == BigShiftRight(n, s - 1)
             half == BigDivSmall(t.q, 2).q
             up == BigIsOdd(t.q) /\ (t.sticky \/ sticky \/ BigIsOdd(half))
         IN IF up THEN BigAdd(half, <<1>>) ELSE half

FloatZero == [m |-> <<>>, e |-> 0]

\* the float nearest to n * 2^e (plus a nonzero part below the last bit of n
\* when sticky, in which case n has more than 53 bits)
FloatRound(n, e, sticky) ==
    IF n = <<>> THEN FloatZero
    ELSE LET len == BigBitLen(n)
         IN IF len <= MantissaBits
            THEN [m |-> BigShiftLeft(n, MantissaBits - len),
                  e |-> e - (MantissaBits - len)]
            ELSE LET s == len - MantissaBits
                     m1 == BigRoundShift(n, s, sticky)
                 IN IF BigBitLen(m1) > MantissaBits
                    THEN [m |-> BigDivSmall(m1, 2).q, e |-> e + s + 1]
                    ELSE [m |-> m1, e |-> e + s]

\* a / b for ints 0 <= a < 2^15, 0 < b < 2^15
IntTrueDiv(a, b) ==
    LET dv == BigDivSmall(BigShiftLeft(BigOfInt(a), 5 * LimbBits), b)
    IN FloatRound(dv.q, -(5 * LimbBits), dv.r # 0)

\* f * k for an int 0 <= k < 2^15
FloatMulInt(f, k) == FloatRound(BigMulSmall(f.m, k), f.e, FALSE)

\* f / d for an int-valued float 0 < d < 2^15
FloatDivInt(f, d) ==
    LET dv == BigDivSmall(BigShiftLeft(f.m, 2 * LimbBits), d)
    IN FloatRound(dv.q, f.e - 2 * LimbBits, dv.r # 0)

\* f + g
FloatAdd(f, g) ==
    IF f.m = <<>> THEN g
    ELSE IF g.m = <<>> THEN f
    ELSE LET e == IF f.e < g.e THEN f.e ELSE g.e
         IN FloatRound(BigAdd(BigShiftLeft(f.m, f.e - e), BigShiftLeft(g.m, g.e - e)),
                       e, FALSE)

\* round(f, ndigits) as the integer f * scale rounded, scale = 10^ndigits:
\* the exact value of the float is rounded, a tie going to the even digit
RoundDecimal(f, scale) ==
    LET n == BigMulSmall(f.m, scale)
    IN IF f.e >= 0 THEN IntOfBig(BigShiftLeft(n, f.e))
       ELSE IntOfBig(BigRoundShift(n, -f.e, FALSE))

(***************************************************************************)
(* compute_scores (generate_summary.py lines 105-135).                     *)
(*                                                                         *)
(* weighted_num is the Python float the loop accumulates; weighted_den is  *)
(* a float too, but a sum of small ints, which floats hold exactly.        *)
(***************************************************************************)
\* assessed = stats["yes"] + stats["no"]
Assessed(stats) == stats.yes + stats.no

\* a bug: the "if assessed == 0: continue" guard is forgotten
SkippedNever(stats) == FALSE

\* if assessed == 0: continue
Skipped(stats) == Assessed(stats) = 0

\* w = weights.get(cat, 0)
WeightOf(wts, cat) == DictGet(wts, cat, 0)

\* if w > 0: the category enters the weighted sums
Weighted(w) == w > 0

\* cat_pct = stats["yes"] / assessed, and the term cat_pct * w
CatPctTimes(stats, w) == FloatMulInt(IntTrueDiv(stats.yes, Assessed(stats)), w)

ScoreInit ==
    [total_yes |-> 0, total_assessed |-> 0, weighted_num |-> FloatZero,
     weighted_den |-> 0, raised |-> FALSE]

\* a bug: the raw totals are accumulated under "if w > 0" too
ScoreStepRawOnlyWeighted(acc, stats, w) ==
    IF acc.raised \/ Skipped(stats) \/ ~Weighted(w) THEN acc
    ELSE [acc EXCEPT !.total_yes = @ + stats.yes,
                     !.total_assessed = @ + Assessed(stats),
                     !.weighted_num = FloatAdd(@, CatPctTimes(stats, w)),
                     !.weighted_den = @ + w]

\* a bug: the weight of a category enters weighted_den before the
\* "if assessed == 0: continue" guard
ScoreStepDenBeforeSkip(acc, stats, w) ==
    IF acc.raised THEN acc
    ELSE IF Skipped(stats)
    THEN (IF Weighted(w) THEN [acc EXCEPT !.weighted_den = @ + w] ELSE acc)
    ELSE LET raw == [acc EXCEPT !.total_yes = @ + stats.yes,
                                !.total_assessed = @ + Assessed(stats)]
         IN IF Weighted(w)
            THEN [raw EXCEPT !.weighted_num = FloatAdd(@, CatPctTimes(stats, w)),
                             !.weighted_den = @ + w]
            ELSE raw

\* one iteration of the loop over category_stats.items(); the division
\* stats["yes"] / assessed raises ZeroDivisionError on assessed == 0
ScoreStep(acc, stats, w) ==
    IF acc.raised \/ Skipped(stats) THEN acc
    ELSE LET raw == [acc EXCEPT !.total_yes = @ + stats.yes,
                                !.total_assessed = @ + Assessed(stats)]
         IN IF Weighted(w)
            THEN IF Assessed(stats) = 0
                 THEN [raw EXCEPT !.raised = TRUE]
                 ELSE [raw EXCEPT !.weighted_num = FloatAdd(@, CatPctTimes(stats, w)),
                                  !.weighted_den = @ + w]
            ELSE raw

RECURSIVE ScoreLoop(_, _, _)
ScoreLoop(acc, cstats, wts) ==
    IF cstats = <<>> THEN acc
    ELSE ScoreLoop(ScoreStep(acc, Head(cstats)[2], WeightOf(wts, Head(cstats)[1])),
                   Tail(cstats), wts)

\* ... if total_assessed > 0 else 0
RawPctDivides(acc) == acc.total_assessed > 0

\* ... if weighted_den > 0 else 0
WeightedScoreDivides(acc) == acc.weighted_den > 0

\* a division of the two final expressions is executed with a zero divisor
FinalDivisionRaises(acc) ==
    \/ RawPctDivides(acc) /\ acc.total_assessed = 0
    \/ WeightedScoreDivides(acc) /\ acc.weighted_den = 0

\* round(raw_pct, 1), in tenths
RawPct(acc) ==
    IF RawPctDivides(acc)
    THEN RoundDecimal(FloatMulInt(IntTrueDiv(acc.total_yes, acc.total_assessed), 100), 10)
    ELSE 0

\* round(weighted_score, 1), in tenths
WeightedScore(acc) ==
    IF WeightedScoreDivides(acc)
    THEN RoundDecimal(FloatMulInt(FloatDivInt(acc.weighted_num, acc.weighted_den), 100), 10)
    ELSE 0

ComputeScoresResult(cstats, wts) ==
    LET acc == ScoreLoop(ScoreInit, cstats, wts)
    IN IF acc.raised \/ FinalDivisionRaises(acc)
       THEN [run |-> TRUE, raised |-> TRUE]
       ELSE [run |-> TRUE, raised |-> FALSE,
             raw_yes |-> acc.total_yes,
             raw_assessed |-> acc.total_assessed,
             raw_pct |-> RawPct(acc),
             weighted_score |-> WeightedScore(acc),
             weighted_num |-> RoundDecimal(acc.weighted_num, 100),
             weighted_den |-> 100 * acc.weighted_den]

compute_scores ==
    /\ scores = NotRun
    /\ scores' = ComputeScoresResult(category_stats, weights)
    /\ UNCHANGED <<category_stats, weights, deltaVars, summaryVars, parseVars, outputVars>>

(***************************************************************************)
(* Inputs of compute_scores.                                               *)
(***************************************************************************)
ScoreCats == {sAAAI, sAPPL, sGNRL}

\* the tally of one category: an assessed one, or one with only an N/A answer
ScoreTallies ==
    {[yes |-> y, no |-> n, na |-> 0, blank |-> 0] :
        <<y, n>> \in ((0..MaxCount) \X (0..MaxCount)) \ {<<0, 0>>}}
    \cup {[yes |-> 0, no |-> 0, na |-> 1, blank |-> 0]}

\* the weight table: AAAI and APPL each absent, of weight 0, or of its weight
\* in scoring-weights.yaml; GNRL absent, which weights.get(cat, 0) reads as 0
WeightChoices == <<{-1, 0, 10}, {-1, 0, 9}, {-1}>>

WeightCatOrder == <<sAAAI, sAPPL, sGNRL>>

RECURSIVE WeightDict(_, _)
WeightDict(f, i) ==
    IF i > Len(WeightCatOrder) THEN <<>>
    ELSE (IF f[i] = -1 THEN <<>> ELSE <<<<WeightCatOrder[i], f[i]>>>>)
         \o WeightDict(f, i + 1)

WeightTables ==
    {WeightDict(f, 1) : f \in {g \in [1..3 -> {-1, 0, 9, 10}] : \A i \in 1..3 : g[i] \in WeightChoices[i]}}

InitScores ==
    /\ category_stats \in DictsUpTo(ScoreCats, ScoreTallies, MaxCats)
    /\ weights \in WeightTables
    /\ scores = NotRun
    /\ before_answers = <<>>
    /\ after_answers = <<>>
    /\ delta_out = NotRun
    /\ assessment = <<>>
    /\ confidence = NotRun
    /\ analysis = NotRun
    /\ sheet_rows = <<>>
    /\ parsed = NotRun
    /\ summary = NotRun
    /\ workbook = <<>>
    /\ report = NotRun

NextScores == compute_scores

SpecScores == InitScores /\ [][NextScores]_vars

(***************************************************************************)
(* compute_scores on three weighted categories, the tally map in every     *)
(* iteration order.                                                        *)
(***************************************************************************)
sITAC == <<"I", "T", "A", "C">>

OrderCats == {sAAAI, sAPPL, sITAC}

OrderTallies ==
    {[yes |-> c[1], no |-> c[2], na |-> 0, blank |-> 0] :
        c \in {<<1, 0>>, <<1, 1>>, <<1, 2>>, <<2, 1>>}}

\* two weight tables of the three categories
OrderWeightTables ==
    {<<<<sAAAI, 10>>, <<sAPPL, 9>>, <<sITAC, 3>>>>,
     <<<<sAAAI, 10>>, <<sAPPL, 5>>, <<sITAC, 1>>>>}

InitOrder ==
    /\ category_stats \in DictsOfLen(OrderCats, OrderTallies, 3)
    /\ weights \in OrderWeightTables
    /\ scores = NotRun
    /\ before_answers = <<>>
    /\ after_answers = <<>>
    /\ delta_out = NotRun
    /\ assessment = <<>>
    /\ confidence = NotRun
    /\ analysis = NotRun
    /\ sheet_rows = <<>>
    /\ parsed = NotRun
    /\ summary = NotRun
    /\ workbook = <<>>
    /\ report = NotRun

NextOrder == compute_scores

SpecOrder == InitOrder /\ [][NextOrder]_vars

(***************************************************************************)
(* compute_confidence_adjusted_score (generate_summary.py).                *)
(* A credit is held as an integer number of quarters (0.75 is 3), so the   *)
(* sum total_quality is exact; the returned percentage is in tenths and    *)
(* the sentinel -1 is -10 tenths.                                          *)
(***************************************************************************)
sStrong == <<"S", "t", "r", "o", "n", "g">>
sModerate == <<"M", "o", "d", "e", "r", "a", "t", "e">>
sWeak == <<"W", "e", "a", "k">>
sInferred == <<"I", "n", "f", "e", "r", "r", "e", "d">>
\* an evidence_quality value that quality_map does not know
sHigh == <<"H", "i", "g", "h">>

\* quality_map, in quarters
quality_map == <<<<sStrong, 4>>, <<sModerate, 3>>, <<sWeak, 2>>, <<sInferred, 1>>>>

\* the credit quality_map.get(eq, 0.5) falls back to, in quarters
DefaultCredit == 2

\* the credit of a Yes answer without evidence_quality, in quarters
FullCredit == 4

\* return -1, in tenths
Sentinel == -10

\* ans.get("answer", ""), before .strip() is applied
AnswerOf(ans) == IF ans.answer = Absent THEN sEmpty ELSE ans.answer

\* `if eq:` for eq = ans.get("evidence_quality"): a missing key gives None,
\* and None and "" are both false
Truthy(eq) == eq \notin {Absent, None, sEmpty}

QualityCreditFallbackFull(eq) == DictGet(quality_map, eq, FullCredit)

\* quality_map.get(eq, 0.5)
QualityCredit(eq) == DictGet(quality_map, eq, DefaultCredit)

ConfInit == [has_quality |-> FALSE, total_quality |-> 0, assessed_count |-> 0]

ConfStepQualityOfAnyAnswer(acc, ans) ==
    LET answer == Strip(AnswerOf(ans))
        eq == ans.evidence_quality
        seen == [acc EXCEPT !.has_quality = @ \/ Truthy(eq)]
    IN IF answer \notin {sYes, sNo} THEN seen
       ELSE LET counted == [seen EXCEPT !.assessed_count = @ + 1]
            IN IF Truthy(eq)
               THEN [counted EXCEPT !.total_quality =
                        IF answer = sYes THEN @ + QualityCredit(eq) ELSE @]
               ELSE IF answer = sYes
               THEN [counted EXCEPT !.total_quality = @ + FullCredit]
               ELSE counted

\* a bug: a No answer is not counted in assessed_count
ConfStepNoNotCounted(acc, ans) ==
    LET answer == Strip(AnswerOf(ans))
        eq == ans.evidence_quality
        seen == [acc EXCEPT !.has_quality = @ \/ Truthy(eq)]
    IN IF answer # sYes THEN (IF answer = sNo THEN seen ELSE acc)
       ELSE [seen EXCEPT !.assessed_count = @ + 1,
                         !.total_quality =
                            @ + (IF Truthy(eq) THEN QualityCredit(eq) ELSE FullCredit)]

\* one iteration of `for qid, ans in answers.items()`
ConfStep(acc, ans) ==
    LET answer == Strip(AnswerOf(ans))
        eq == ans.evidence_quality
    IN IF answer \notin {sYes, sNo} THEN acc
       ELSE LET counted == [acc EXCEPT !.assessed_count = @ + 1]
            IN IF Truthy(eq)
               THEN [counted EXCEPT !.has_quality = TRUE,
                                    !.total_quality =
                        IF answer = sYes THEN @ + QualityCredit(eq) ELSE @]
               ELSE IF answer = sYes
               THEN [counted EXCEPT !.total_quality = @ + FullCredit]
               ELSE counted

RECURSIVE ConfLoop(_, _)
ConfLoop(acc, items) ==
    IF items = <<>> THEN acc
    ELSE ConfLoop(ConfStep(acc, Head(items)[2]), Tail(items))

\* the nearest tenth above on a tie
ConfPercentHalfUp(total_quality, assessed_count) ==
    (2 * 1000 * total_quality + 4 * assessed_count) \div (2 * 4 * assessed_count)

\* round(total_quality / assessed_count * 100, 1), in tenths
ConfPercent(total_quality, assessed_count) ==
    RoundHalfEven(1000 * total_quality, 4 * assessed_count)

\* None.strip() raises AttributeError
ConfRaises(items) == \E i \in 1..Len(items) : items[i][2].answer = None

ConfidenceResult(items) ==
    IF ConfRaises(items) THEN [run |-> TRUE, raised |-> TRUE]
    ELSE LET acc == ConfLoop(ConfInit, items)
         IN [run |-> TRUE, raised |-> FALSE,
             value |-> IF ~acc.has_quality \/ acc.assessed_count = 0
                       THEN Sentinel
                       ELSE ConfPercent(acc.total_quality, acc.assessed_count)]

compute_confidence_adjusted_score ==
    /\ confidence = NotRun
    /\ confidence' = ConfidenceResult(assessment)
    /\ UNCHANGED <<assessment, analysis, deltaVars, scoreVars, parseVars, outputVars>>

(***************************************************************************)
(* Inputs of compute_confidence_adjusted_score.                            *)
(***************************************************************************)
QualityRecord(ans, eq) ==
    [EmptyRecord EXCEPT !.answer = ans, !.evidence_quality = eq]

QualityValues ==
    {Absent, None, sEmpty, sStrong, sModerate, sWeak, sInferred, sHigh}

\* free-form records: every answer class with every evidence_quality value
ConfRecords ==
    {QualityRecord(a, eq) :
        a \in {sYes, sNo, sNoPadded, sNSlashA, sEmpty}, eq \in QualityValues}

ConfQidOrder == <<qAAAI01, qAAAI02, qAAAI03, qAPPL01>>

\* the dict with keys ConfQidOrder[1..n] and the values of f
ConfDict(f, n) == [i \in 1..n |-> <<ConfQidOrder[i], f[i]>>]

\* four answered questions, each a Yes or a No with or without a rating
ConfRatedRecords ==
    {QualityRecord(sYes, sStrong), QualityRecord(sYes, sModerate),
     QualityRecord(sYes, sWeak), QualityRecord(sYes, sInferred),
     QualityRecord(sNo, sStrong), AnswerRecord(sYes)}

ConfRatedInputs == {ConfDict(f, 4) : f \in [1..4 -> ConfRatedRecords]}

\* a null answer
ConfNullInputs == {<<<<qAAAI01, QualityRecord(None, eq)>>>> : eq \in {Absent, sStrong}}

InitConf ==
    \* up to MaxAnswers free-form records, or one of the other families
    /\ \/ \E n \in 0..MaxAnswers :
             \E f \in [1..n -> ConfRecords] : assessment = ConfDict(f, n)
       \/ assessment \in ConfRatedInputs \cup ConfNullInputs
    /\ confidence = NotRun
    /\ analysis = NotRun
    /\ before_answers = <<>>
    /\ after_answers = <<>>
    /\ delta_out = NotRun
    /\ category_stats = <<>>
    /\ weights = <<>>
    /\ scores = NotRun
    /\ sheet_rows = <<>>
    /\ parsed = NotRun
    /\ summary = NotRun
    /\ workbook = <<>>
    /\ report = NotRun

NextConf == compute_confidence_adjusted_score

SpecConf == InitConf /\ [][NextConf]_vars

(***************************************************************************)
(* analyze_assessment (generate_summary.py).                               *)
(* The returned dict maps a category to its tally, in the order in which   *)
(* the categories were first met; fix_types is a dict fix_type -> count.   *)
(***************************************************************************)
sYesLower == <<"y", "e", "s">>
sUnknown == <<"u", "n", "k", "n", "o", "w", "n">>
sCode == <<"c", "o", "d", "e">>
sConfig == <<"c", "o", "n", "f", "i", "g">>
\* an id with two separators
qAAAI011 == <<"A", "A", "A", "I", "-", "0", "1", "-", "1">>

\* d[k] = v
DictSet(d, k, v) ==
    IF HasKey(d, k)
    THEN [i \in 1..Len(d) |-> IF d[i][1] = k THEN <<k, v>> ELSE d[i]]
    ELSE Append(d, <<k, v>>)

\* the value defaultdict creates for a category met for the first time
NewTally ==
    [yes |-> 0, no |-> 0, na |-> 0, blank |-> 0, gaps |-> <<>>, fix_types |-> <<>>]

\* a bug: fix_types[fix_type] = 1
IncrementSetsOne(hist, k) == DictSet(hist, k, 1)

\* fix_types[fix_type] += 1 on a defaultdict(int)
Increment(hist, k) == DictSet(hist, k, DictGet(hist, k, 0) + 1)

\* ans.get("fix_type", "unknown")
FixTypeOf(ans) == IF ans.fix_type = Absent THEN sUnknown ELSE ans.fix_type

IsNAOnlySlash(answer) == answer = sNSlashA

\* answer in ("N/A", "NA")
IsNA(answer) == answer \in {sNSlashA, sNA}

GapsPrepend(gaps, qid) == <<qid>> \o gaps

\* categories[cat]["gaps"].append(qid)
GapsAppend(gaps, qid) == Append(gaps, qid)

\* one iteration of `for qid, ans in answers.items()`
AnalyzeStep(categories, qid, ans) ==
    LET cat == CategoryOf(qid)
        answer == Strip(AnswerOf(ans))
        tally == DictGet(categories, cat, NewTally)
    IN DictSet(categories, cat,
           IF answer = sYes THEN [tally EXCEPT !.yes = @ + 1]
           ELSE IF answer = sNo
           THEN [tally EXCEPT !.no = @ + 1,
                              !.gaps = GapsAppend(@, qid),
                              !.fix_types = Increment(@, FixTypeOf(ans))]
           ELSE IF IsNA(answer) THEN [tally EXCEPT !.na = @ + 1]
           ELSE [tally EXCEPT !.blank = @ + 1])

RECURSIVE AnalyzeLoop(_, _)
AnalyzeLoop(categories, items) ==
    IF items = <<>> THEN categories
    ELSE AnalyzeLoop(AnalyzeStep(categories, Head(items)[1], Head(items)[2]),
                     Tail(items))

\* None.strip() raises AttributeError
AnalyzeRaises(items) == \E i \in 1..Len(items) : items[i][2].answer = None

AnalyzeResult(items) ==
    IF AnalyzeRaises(items) THEN [run |-> TRUE, raised |-> TRUE]
    ELSE [run |-> TRUE, raised |-> FALSE, categories |-> AnalyzeLoop(<<>>, items)]

analyze_assessment ==
    /\ analysis = NotRun
    /\ analysis' = AnalyzeResult(assessment)
    /\ UNCHANGED <<assessment, confidence, deltaVars, scoreVars, parseVars, outputVars>>

(***************************************************************************)
(* Inputs of analyze_assessment.                                           *)
(***************************************************************************)
FixRecord(ans, fix_type) == [EmptyRecord EXCEPT !.answer = ans, !.fix_type = fix_type]

AnalyzeQids == {qAAAI01, qAAAI02, qAPPL01, qAAAI011}

\* free-form records: every answer class, a No with and without a fix_type
AnalyzeRecords ==
    {AnswerRecord(sYes), AnswerRecord(sYesLower), AnswerRecord(sNSlashA),
     AnswerRecord(sNA), EmptyRecord, AnswerRecord(sNo),
     FixRecord(sNo, sCode), FixRecord(sNoPadded, sConfig)}

\* the four ids answered Yes or No, in every insertion order
AnalyzeGapRecords == {AnswerRecord(sYes), AnswerRecord(sNo), FixRecord(sNo, sCode)}

AnalyzeGapInputs == DictsOfLen(AnalyzeQids, AnalyzeGapRecords, 4)

\* a null answer
AnalyzeNullInputs == {<<<<qAAAI01, AnswerRecord(None)>>>>}

InitAnalyze ==
    \* up to MaxAnswers free-form records in every insertion order, or one
    \* of the other families
    /\ \/ assessment \in DictsUpTo(AnalyzeQids, AnalyzeRecords, MaxAnswers)
       \/ assessment \in AnalyzeGapInputs \cup AnalyzeNullInputs
    /\ confidence = NotRun
    /\ analysis = NotRun
    /\ before_answers = <<>>
    /\ after_answers = <<>>
    /\ delta_out = NotRun
    /\ category_stats = <<>>
    /\ weights = <<>>
    /\ scores = NotRun
    /\ sheet_rows = <<>>
    /\ parsed = NotRun
    /\ summary = NotRun
    /\ workbook = <<>>
    /\ report = NotRun

NextAnalyze == analyze_assessment

SpecAnalyze == InitAnalyze /\ [][NextAnalyze]_vars

(***************************************************************************)
(* parse_hecvat (parse_hecvat.py).                                         *)
(* A row of the Questions sheet is held by its first cell, the question    *)
(* id; the other cells are copied into the question record unchanged and   *)
(* take no part in the classification.  A question record is held by its   *)
(* id, category and repo_assessable fields.                                *)
(***************************************************************************)
REPO_ASSESSABLE_PREFIXES ==
    {<<"A", "A", "A", "I">>,
     <<"A", "P", "P", "L">>,
     <<"C", "H", "N", "G">>,
     <<"D", "A", "T", "A">>,
     <<"V", "U", "L", "N">>,
     <<"I", "T", "A", "C">>,
     <<"A", "I", "M", "L">>,
     <<"A", "I", "L", "M">>,
     <<"A", "I", "S", "C">>,
     <<"A", "I", "G", "N">>,
     <<"A", "I", "Q", "U">>,
     <<"D", "P", "A", "I">>}

REPO_ASSESSABLE_IDS ==
    {<<"D", "O", "C", "U", "-", "0", "5">>,
     <<"D", "C", "T", "R", "-", "0", "1">>,
     <<"D", "C", "T", "R", "-", "0", "2">>,
     <<"D", "C", "T", "R", "-", "0", "3">>,
     <<"O", "P", "E", "M", "-", "0", "1">>,
     <<"O", "P", "E", "M", "-", "0", "2">>,
     <<"D", "R", "P", "V", "-", "0", "1">>,
     <<"D", "R", "P", "V", "-", "0", "2">>,
     <<"C", "O", "N", "S", "-", "0", "1">>,
     <<"C", "O", "N", "S", "-", "0", "2">>,
     <<"T", "H", "R", "D", "-", "0", "1">>,
     <<"T", "H", "R", "D", "-", "0", "2">>,
     <<"T", "H", "R", "D", "-", "0", "3">>,
     <<"P", "C", "I", "D", "-", "0", "1">>,
     <<"P", "C", "I", "D", "-", "0", "2">>,
     <<"H", "I", "P", "A", "-", "0", "1">>,
     <<"H", "I", "P", "A", "-", "0", "2">>,
     <<"H", "I", "P", "A", "-", "0", "3">>,
     <<"F", "I", "D", "P", "-", "0", "1">>,
     <<"F", "I", "D", "P", "-", "0", "2">>,
     <<"F", "I", "D", "P", "-", "0", "3">>,
     <<"P", "D", "A", "T", "-", "0", "1">>,
     <<"P", "D", "A", "T", "-", "0", "2">>,
     <<"P", "D", "A", "T", "-", "0", "3">>,
     <<"P", "D", "A", "T", "-", "0", "4">>,
     <<"P", "P", "P", "R", "-", "0", "1">>,
     <<"P", "P", "P", "R", "-", "0", "2">>,
     <<"P", "P", "P", "R", "-", "0", "3">>}

NEVER_ASSESSABLE_PREFIXES ==
    {<<"G", "N", "R", "L">>,
     <<"C", "O", "M", "P">>,
     <<"R", "E", "Q", "U">>,
     <<"P", "C", "O", "M">>,
     <<"P", "R", "G", "N">>,
     <<"I", "N", "T", "L">>,
     <<"H", "F", "I", "H">>,
     <<"P", "C", "H", "G">>,
     <<"P", "T", "H", "P">>}

\* a cell holding a number
IntCell == <<"<int>">>

qGNRL01 == <<"G", "N", "R", "L", "-", "0", "1">>
qDOCU01 == <<"D", "O", "C", "U", "-", "0", "1">>
qDOCU05 == <<"D", "O", "C", "U", "-", "0", "5">>
\* an id with an empty prefix
qDash01 == <<"-", "0", "1">>

SkipRowOnlyEmpty(qid) == qid \in {None, sEmpty, IntCell}

\* not qid or not isinstance(qid, str) or "-" not in qid
SkipRow(qid) == qid \in {None, sEmpty, IntCell} \/ ~HasDash(qid)

PrefixBeforeLastDash(qid) == CategoryOf(qid)

\* qid.split("-")[0]
Prefix(qid) ==
    IF HasDash(qid)
    THEN LET first == CHOOSE i \in 1..Len(qid) :
                         /\ qid[i] = sDash
                         /\ \A j \in 1..(i - 1) : qid[j] # sDash
         IN SubSeq(qid, 1, first - 1)
    ELSE qid

RepoAssessableByPrefixOnly(qid) ==
    LET prefix == Prefix(qid)
    IN IF prefix \in NEVER_ASSESSABLE_PREFIXES THEN FALSE
       ELSE IF prefix \in REPO_ASSESSABLE_PREFIXES THEN TRUE
       ELSE FALSE

\* the if / elif / else that sets repo_assessable
RepoAssessable(qid) ==
    LET prefix == Prefix(qid)
    IN IF prefix \in NEVER_ASSESSABLE_PREFIXES THEN FALSE
       ELSE IF prefix \in REPO_ASSESSABLE_PREFIXES \/ qid \in REPO_ASSESSABLE_IDS
       THEN TRUE
       ELSE FALSE

\* the question record of a row
Question(qid) ==
    [id |-> qid, category |-> Prefix(qid), repo_assessable |-> RepoAssessable(qid)]

\* for row in ws.iter_rows(min_row=3, values_only=True)
RECURSIVE ParseRows(_)
ParseRows(cells) ==
    IF cells = <<>> THEN <<>>
    ELSE IF SkipRow(Head(cells)) THEN ParseRows(Tail(cells))
    ELSE <<Question(Head(cells))>> \o ParseRows(Tail(cells))

\* sum(1 for q in questions if <test>)
CountQuestions(questions, flag) ==
    Cardinality({i \in 1..Len(questions) : questions[i].repo_assessable = flag})

ParseResult(cells) ==
    LET questions == ParseRows(cells)
    IN [run |-> TRUE, raised |-> FALSE,
        total_questions |-> Len(questions),
        repo_assessable_count |-> CountQuestions(questions, TRUE),
        org_attestation_count |-> CountQuestions(questions, FALSE),
        categories |-> Sorted({questions[i].category : i \in 1..Len(questions)}),
        questions |-> questions]

parse_hecvat ==
    /\ parsed = NotRun
    /\ parsed' = ParseResult(sheet_rows)
    /\ UNCHANGED <<sheet_rows, deltaVars, scoreVars, summaryVars, outputVars>>

(***************************************************************************)
(* Inputs of parse_hecvat.                                                 *)
(***************************************************************************)
\* first cells: empty, a number, a heading without separator, and ids whose
\* prefix is never assessable, assessable, assessable by explicit id, or in
\* no table, with two separators, with an empty prefix
Cells ==
    {None, sEmpty, IntCell, sAAAI, qAAAI01, qGNRL01, qDOCU01, qDOCU05,
     qAAAI011, qDash01}

InitParse ==
    /\ sheet_rows \in UNION {[1..n -> Cells] : n \in 0..MaxRows}
    /\ parsed = NotRun
    /\ assessment = <<>>
    /\ confidence = NotRun
    /\ analysis = NotRun
    /\ before_answers = <<>>
    /\ after_answers = <<>>
    /\ delta_out = NotRun
    /\ category_stats = <<>>
    /\ weights = <<>>
    /\ scores = NotRun
    /\ summary = NotRun
    /\ workbook = <<>>
    /\ report = NotRun

NextParse == parse_hecvat

SpecParse == InitParse /\ [][NextParse]_vars

(***************************************************************************)
(* generate_summary (generate_summary.py lines 166-361), run without       *)
(* --compare: the tallies, the scores and the confidence-adjusted score of *)
(* one assessment, and the tables of the report built from them.  The      *)
(* category names, the static text and the time stamp of the report are    *)
(* left out.                                                               *)
(***************************************************************************)
sNewFile == <<"n", "e", "w", "_", "f", "i", "l", "e">>
sDocumentation == <<"d", "o", "c", "u", "m", "e", "n", "t", "a", "t", "i", "o", "n">>
sPolicy == <<"p", "o", "l", "i", "c", "y">>
sOrganizational ==
    <<"o", "r", "g", "a", "n", "i", "z", "a", "t", "i", "o", "n", "a", "l">>
\* a fix type the table has no row for
sRefactor == <<"r", "e", "f", "a", "c", "t", "o", "r">>

\* for ft in ["code", "config", "new_file", "documentation", "policy",
\*            "organizational", "unknown"]
FixTypeRowOrder ==
    <<sCode, sConfig, sNewFile, sDocumentation, sPolicy, sOrganizational, sUnknown>>

\* the types summed into "Total patchable"
PatchableTypes == <<sCode, sConfig, sNewFile>>

\* all_fix_types[ft] += count for the histogram of one category
RECURSIVE AddHistogram(_, _)
AddHistogram(all, hist) ==
    IF hist = <<>> THEN all
    ELSE AddHistogram(DictSet(all, Head(hist)[1],
                              DictGet(all, Head(hist)[1], 0) + Head(hist)[2]),
                      Tail(hist))

\* all_fix_types over stats.values()
RECURSIVE AllFixTypes(_, _)
AllFixTypes(all, stats) ==
    IF stats = <<>> THEN all
    ELSE AllFixTypes(AddHistogram(all, Head(stats)[2].fix_types), Tail(stats))

RECURSIVE SumGet(_, _)
\* the sum of all_fix_types.get(ft, 0) over the types of a list
SumGet(all, types) ==
    IF types = <<>> THEN 0
    ELSE DictGet(all, Head(types), 0) + SumGet(all, Tail(types))

RECURSIVE FixTypeRowsOf(_, _)
\* if ft in all_fix_types: a row with its count
FixTypeRowsOf(all, types) ==
    IF types = <<>> THEN <<>>
    ELSE (IF HasKey(all, Head(types))
          THEN <<<<Head(types), DictGet(all, Head(types), 0)>>>> ELSE <<>>)
         \o FixTypeRowsOf(all, Tail(types))

\* the "Gaps by Fix Type" table, written only if all_fix_types is not empty
FixTypeTable(stats) ==
    LET all == AllFixTypes(<<>>, stats)
    IN IF all = <<>> THEN [shown |-> FALSE]
       ELSE [shown |-> TRUE,
             rows |-> FixTypeRowsOf(all, FixTypeRowOrder),
             patchable |-> SumGet(all, PatchableTypes)]

\* org_count = sum(s["blank"] for s in stats.values())
RECURSIVE OrgCount(_)
OrgCount(stats) == IF stats = <<>> THEN 0 ELSE Head(stats)[2].blank + OrgCount(Tail(stats))

\* if conf_score >= 0: the "Confidence-adjusted score" row is written
ConfidenceRowShown(conf_score) == conf_score >= 0

\* key=lambda x: (-weights.get(x[0], 0), x[0])
BreakdownBefore(wts, c1, c2) ==
    \/ WeightOf(wts, c1) > WeightOf(wts, c2)
    \/ WeightOf(wts, c1) = WeightOf(wts, c2) /\ StrLess(c1, c2)

RECURSIVE SortedCats(_, _)
\* the categories in the order of sorted_cats
SortedCats(S, wts) ==
    IF S = {} THEN <<>>
    ELSE LET m == CHOOSE x \in S : \A y \in S \ {x} : BreakdownBefore(wts, x, y)
         IN <<m>> \o SortedCats(S \ {m}, wts)

\* gap_preview: the first three gaps and the number of the others
GapPreview(gaps) ==
    [ids |-> SubSeq(gaps, 1, IF Len(gaps) > 3 THEN 3 ELSE Len(gaps)),
     more |-> IF Len(gaps) > 3 THEN Len(gaps) - 3 ELSE 0]

\* one row of the category breakdown: pct in tenths, wtd in hundredths
BreakdownRow(cat, s, w) ==
    LET pct == RoundDecimal(FloatMulInt(IntTrueDiv(s.yes, Assessed(s)), 100), 10)
    IN [cat |-> cat, w |-> w, yes |-> s.yes, no |-> s.no, na |-> s.na,
        pct |-> pct,
        wtd |-> RoundDecimal(FloatMulInt(FloatDivInt(IntTrueDiv(pct, 10), 100), w), 100),
        gaps |-> GapPreview(s.gaps)]

RECURSIVE BreakdownRows(_, _, _)
\* categories of weight 0 and categories without Yes or No have no row
BreakdownRows(cats, stats, wts) ==
    IF cats = <<>> THEN <<>>
    ELSE LET cat == Head(cats)
             s == DictGet(stats, cat, NewTally)
             w == WeightOf(wts, cat)
         IN (IF w = 0 \/ Assessed(s) = 0 THEN <<>> ELSE <<BreakdownRow(cat, s, w)>>)
            \o BreakdownRows(Tail(cats), stats, wts)

\* impact = round(w * (s["no"] / assessed), 2), in hundredths
Impact(s, w) == RoundDecimal(FloatMulInt(IntTrueDiv(s.no, Assessed(s)), w), 100)

\* if w > 0 and s["no"] > 0 and assessed > 0
HasPriority(s, w) == w > 0 /\ s.no > 0 /\ Assessed(s) > 0

\* priorities.sort(reverse=True) on (impact, cat, ...); impact is the
\* function category -> impact
PriorityBefore(impact, c1, c2) ==
    impact[c1] > impact[c2] \/ (impact[c1] = impact[c2] /\ StrLess(c2, c1))

RECURSIVE PrioritySort(_, _)
\* the categories in the order of the sorted priorities
PrioritySort(S, impact) ==
    IF S = {} THEN <<>>
    ELSE LET m == CHOOSE x \in S : \A y \in S \ {x} : PriorityBefore(impact, x, y)
         IN <<m>> \o PrioritySort(S \ {m}, impact)

\* priorities[:10]
Priorities(stats, wts) ==
    LET listed == {c \in Keys(stats) :
                     HasPriority(DictGet(stats, c, NewTally), WeightOf(wts, c))}
        impact == [c \in listed |->
                     Impact(DictGet(stats, c, NewTally), WeightOf(wts, c))]
        cats == PrioritySort(listed, impact)
    IN [i \in 1..(IF Len(cats) > 10 THEN 10 ELSE Len(cats)) |->
           [cat |-> cats[i], impact |-> impact[cats[i]],
            gaps |-> DictGet(stats, cats[i], NewTally).no,
            assessed |-> Assessed(DictGet(stats, cats[i], NewTally))]]

\* the report, made of the results of the three functions
SummaryTables(an, sc, cf, wts) ==
    IF an.raised THEN [run |-> TRUE, raised |-> TRUE]
    ELSE IF sc.raised \/ cf.raised THEN [run |-> TRUE, raised |-> TRUE]
    ELSE [run |-> TRUE, raised |-> FALSE,
          stats |-> an.categories,
          raw_yes |-> sc.raw_yes,
          raw_assessed |-> sc.raw_assessed,
          raw_pct |-> sc.raw_pct,
          weighted_score |-> sc.weighted_score,
          org_count |-> OrgCount(an.categories),
          conf_score |-> cf.value,
          confidence_row |-> ConfidenceRowShown(cf.value),
          breakdown |-> BreakdownRows(SortedCats(Keys(an.categories), wts),
                                      an.categories, wts),
          fix_table |-> FixTypeTable(an.categories),
          priorities |-> Priorities(an.categories, wts)]

\* stats = analyze_assessment(assessment); scores = compute_scores(stats,
\* weights); conf_score = compute_confidence_adjusted_score(assessment,
\* weights); then the report is written.  An error in analyze_assessment
\* ends the run before the other two functions are called.
generate_summary ==
    /\ summary = NotRun
    /\ analysis' = AnalyzeResult(assessment)
    /\ category_stats' = IF analysis'.raised THEN <<>> ELSE analysis'.categories
    /\ scores' = IF analysis'.raised THEN NotRun
                 ELSE ComputeScoresResult(category_stats', weights)
    /\ confidence' = IF analysis'.raised THEN NotRun ELSE ConfidenceResult(assessment)
    /\ summary' = SummaryTables(analysis', scores', confidence', weights)
    /\ UNCHANGED <<assessment, weights, workbook, report, deltaVars, parseVars>>

(***************************************************************************)
(* Inputs of generate_summary.                                             *)
(***************************************************************************)
SummaryRecord(ans, fix_type, eq) ==
    [EmptyRecord EXCEPT !.answer = ans, !.fix_type = fix_type, !.evidence_quality = eq]

SummaryQids == {qAAAI01, qAAAI02, qAPPL01}

\* Yes with and without a rating, No with a listed, an unlisted, a null and
\* no fix type, N/A and no answer
SummaryRecords ==
    {SummaryRecord(sYes, Absent, sStrong), SummaryRecord(sYes, Absent, sWeak),
     SummaryRecord(sYes, Absent, Absent),
     SummaryRecord(sNo, sCode, sStrong), SummaryRecord(sNo, sNewFile, Absent),
     SummaryRecord(sNo, sPolicy, Absent), SummaryRecord(sNo, sRefactor, Absent),
     SummaryRecord(sNo, None, Absent), SummaryRecord(sNo, Absent, Absent),
     SummaryRecord(sNSlashA, Absent, Absent), EmptyRecord}

SummaryWeightTables ==
    {<<<<sAAAI, 10>>, <<sAPPL, 9>>, <<sGNRL, 0>>>>, <<<<sAAAI, 10>>>>}

\* four No answers in one category, more than the gap preview shows
SummaryManyGaps ==
    <<<<qAAAI01, SummaryRecord(sNo, sCode, Absent)>>,
      <<qAAAI02, SummaryRecord(sNo, sConfig, Absent)>>,
      <<qAAAI03, SummaryRecord(sNo, sCode, sWeak)>>,
      <<qAAAI04, SummaryRecord(sNo, sDocumentation, Absent)>>>>

InitSummary ==
    /\ \/ assessment \in DictsUpTo(SummaryQids, SummaryRecords, MaxAnswers)
       \/ assessment \in {SummaryManyGaps, <<<<qAAAI01, AnswerRecord(None)>>>>}
    /\ weights \in SummaryWeightTables
    /\ before_answers = <<>>
    /\ after_answers = <<>>
    /\ delta_out = NotRun
    /\ category_stats = <<>>
    /\ scores = NotRun
    /\ confidence = NotRun
    /\ analysis = NotRun
    /\ sheet_rows = <<>>
    /\ parsed = NotRun
    /\ summary = NotRun
    /\ workbook = <<>>
    /\ report = NotRun

NextSummary == generate_summary

SpecSummary == InitSummary /\ [][NextSummary]_vars

(***************************************************************************)
(* generate_report (generate_report.py).                                   *)
(* A workbook is a dict sheet name -> rows; a row holds the values of its  *)
(* columns A, C and D, None for an empty cell.                             *)
(***************************************************************************)
response_sheets ==
    <<"START HERE", "Organization", "Product", "Infrastructure",
      "IT Accessibility", "Case-Specific", "AI", "Privacy">>

AlphaChars ==
    {"A", "B", "C", "D", "E", "F", "G", "H", "I", "J", "K", "L", "M", "N", "O",
     "P", "Q", "R", "S", "T", "U", "V", "W", "X", "Y", "Z", "a", "b", "c", "d",
     "e", "f", "g", "h", "i", "j", "k", "l", "m", "n", "o", "p", "q", "r", "s",
     "t", "u", "v", "w", "x", "y", "z"}

DigitChars == {"0", "1", "2", "3", "4", "5", "6", "7", "8", "9"}

\* str.isalpha()
IsAlpha(s) == s # <<>> /\ \A i \in 1..Len(s) : s[i] \in AlphaChars

\* str.isdigit()
IsDigit(s) == s # <<>> /\ \A i \in 1..Len(s) : s[i] \in DigitChars

\* cell_a and isinstance(cell_a, str) and "-" in cell_a, and
\* cell_a.strip().split("-") is an alphabetic and a numeric part
IsQuestionCell(cell_a) ==
    /\ cell_a \notin {None, sEmpty, IntCell}
    /\ HasDash(cell_a)
    /\ LET s == Strip(cell_a)
           dashes == {i \in 1..Len(s) : s[i] = sDash}
       IN /\ Cardinality(dashes) = 1
          /\ \A i \in dashes : /\ IsAlpha(SubSeq(s, 1, i - 1))
                               /\ IsDigit(SubSeq(s, i + 1, Len(s)))

\* for row_num in range(1, max_row + 1): qmap[cell_a.strip()] = row_num
RECURSIVE find_question_cells(_, _, _)
find_question_cells(qmap, rows, row_num) ==
    IF row_num > Len(rows) THEN qmap
    ELSE find_question_cells(
            IF IsQuestionCell(rows[row_num].a)
            THEN DictSet(qmap, Strip(rows[row_num].a), row_num) ELSE qmap,
            rows, row_num + 1)

\* `if v:` for v = ans.get(key, ""): a missing key gives "", and "" and None
\* are both false
Falsy(v) == v \in {Absent, None, sEmpty}

sEvidencePrefix == <<"E", "v", "i", "d", "e", "n", "c", "e", ":", " ">>

\* full_info
FullInfo(ans) ==
    IF ~Falsy(ans.evidence) /\ ~Falsy(ans.additional_info)
    THEN ans.additional_info \o <<"\n", "\n">> \o sEvidencePrefix \o ans.evidence
    ELSE IF ~Falsy(ans.evidence) THEN sEvidencePrefix \o ans.evidence
    ELSE IF ~Falsy(ans.additional_info) THEN ans.additional_info
    ELSE sEmpty

\* the writes to columns C and D of the row of an answered id
FillRow(row, ans) ==
    [row EXCEPT !.c = IF Falsy(ans.answer) THEN @ ELSE ans.answer,
                !.d = IF FullInfo(ans) = sEmpty THEN @ ELSE FullInfo(ans)]

\* for qid, row_num in qmap.items(): if qid in answers: ...
RECURSIVE FillSheet(_, _, _)
FillSheet(acc, qmap, answers) ==
    IF qmap = <<>> THEN acc
    ELSE LET qid == Head(qmap)[1]
             row_num == Head(qmap)[2]
         IN FillSheet(
               IF HasKey(answers, qid)
               THEN [rows |-> [acc.rows EXCEPT
                                 ![row_num] = FillRow(@, DictGet(answers, qid, EmptyRecord))],
                     filled_count |-> acc.filled_count + 1]
               ELSE acc,
               Tail(qmap), answers)

\* for sheet_name in response_sheets: if sheet_name not in wb.sheetnames: continue
RECURSIVE FillSheets(_, _, _)
FillSheets(acc, names, answers) ==
    IF names = <<>> THEN acc
    ELSE IF ~HasKey(acc.wb, Head(names)) THEN FillSheets(acc, Tail(names), answers)
    ELSE LET rows == DictGet(acc.wb, Head(names), <<>>)
             done == FillSheet([rows |-> rows, filled_count |-> acc.filled_count],
                               find_question_cells(<<>>, rows, 1), answers)
         IN FillSheets([wb |-> DictSet(acc.wb, Head(names), done.rows),
                        filled_count |-> done.filled_count],
                       Tail(names), answers)

sDateCompleted ==
    <<"D", "a", "t", "e", " ", "C", "o", "m", "p", "l", "e", "t", "e", "d">>

\* sub in str(value)
Contains(value, sub) ==
    \E i \in 1..(Len(value) - Len(sub) + 1) : SubSeq(value, i, i + Len(sub) - 1) = sub

\* a bug: the date goes to the first of the rows 1..9 with a value in column A
DateRowFirstValue(rows) ==
    LET hits == {r \in 1..9 : r <= Len(rows) /\ rows[r].a \notin {None, sEmpty}}
    IN IF hits = {} THEN 0 ELSE CHOOSE r \in hits : \A h \in hits : r <= h

\* the first of the rows 1..9 whose column A holds "Date Completed", 0 if none
DateRow(rows) ==
    LET hits == {r \in 1..9 : /\ r <= Len(rows)
                              /\ rows[r].a \notin {None, sEmpty}
                              /\ Contains(rows[r].a, sDateCompleted)}
    IN IF hits = {} THEN 0 ELSE CHOOSE r \in hits : \A h \in hits : r <= h

\* if "START HERE" in wb.sheetnames: column C of the date row is set to today
SetDate(wb, today) ==
    IF ~HasKey(wb, "START HERE") THEN wb
    ELSE LET rows == DictGet(wb, "START HERE", <<>>)
         IN IF DateRow(rows) = 0 THEN wb
            ELSE DictSet(wb, "START HERE", [rows EXCEPT ![DateRow(rows)].c = today])

\* the workbook saved to output_path
GenerateReportResult(wb, answers, today) ==
    LET filled == FillSheets([wb |-> wb, filled_count |-> 0], response_sheets, answers)
    IN [run |-> TRUE, raised |-> FALSE,
        sheets |-> SetDate(filled.wb, today),
        filled_count |-> filled.filled_count]

\* datetime.now().strftime("%Y-%m-%d") on two days
Dates ==
    {<<"2", "0", "2", "5", "-", "0", "1", "-", "3", "1">>,
     <<"2", "0", "2", "5", "-", "0", "2", "-", "0", "1">>}

generate_report ==
    /\ report = NotRun
    /\ \E today \in Dates : report' = GenerateReportResult(workbook, assessment, today)
    /\ UNCHANGED <<workbook, summary, deltaVars, scoreVars, summaryVars, parseVars>>

(***************************************************************************)
(* Inputs of generate_report.                                              *)
(***************************************************************************)
sOld == <<"o", "l", "d">>
sInfo == <<"i", "n", "f", "o">>
sProof == <<"p", "r", "o", "o", "f">>
sSection == <<"S", "e", "c", "t", "i", "o", "n">>
qAAAI01Padded == <<" ", "A", "A", "A", "I", "-", "0", "1">>
\* an id that is on no sheet
qZZZZ99 == <<"Z", "Z", "Z", "Z", "-", "9", "9">>

Row(a, c, d) == [a |-> a, c |-> c, d |-> d]

\* column A of a row of the Organization sheet
ReportCells == {None, sSection, qAAAI01, qAAAI02}

\* the Organization sheet: up to MaxRows rows, columns C and D all empty or
\* all holding a value of the template
OrganizationSheets ==
    UNION {{[i \in 1..n |-> Row(f[i], old, old)] : f \in [1..n -> ReportCells],
                                                   old \in {None, sOld}} :
           n \in 1..MaxRows}

\* START HERE with its date row and a question row
StartHereRows == <<Row(sSection, None, None),
                   Row(sDateCompleted \o <<":">>, sOld, None),
                   Row(qAAAI01Padded, None, None)>>

\* a sheet generate_report does not fill
SummarySheetRows == <<Row(qAAAI01, sOld, sOld), Row(qAAAI011, None, None)>>

Workbooks ==
    {<<<<"START HERE", StartHereRows>>, <<"Organization", org>>,
       <<"Summary", SummarySheetRows>>>> : org \in OrganizationSheets}
    \cup {<<<<"Summary", SummarySheetRows>>, <<"Organization", org>>>> :
            org \in OrganizationSheets}

ReportRecord(ans, info, evidence) ==
    [EmptyRecord EXCEPT !.answer = ans, !.additional_info = info, !.evidence = evidence]

ReportRecords ==
    {ReportRecord(ans, info, ev) :
        ans \in {Absent, None, sYes}, info \in {Absent, None, sInfo},
        ev \in {Absent, sEmpty, sProof}}

\* a record or none for AAAI-01, with or without records for AAAI-02, for
\* an id of no sheet and for an id that is no question row
ReportAnswers ==
    {first \o rest :
        first \in {<<>>} \cup {<<<<qAAAI01, r>>>> : r \in ReportRecords},
        rest \in {<<>>, <<<<qAAAI02, ReportRecord(sNo, Absent, Absent)>>>>,
                  <<<<qZZZZ99, ReportRecord(sYes, sInfo, sProof)>>,
                    <<qAAAI011, ReportRecord(sYes, sInfo, sProof)>>>>}}

InitReport ==
    /\ workbook \in Workbooks
    /\ assessment \in ReportAnswers
    /\ report = NotRun
    /\ summary = NotRun
    /\ before_answers = <<>>
    /\ after_answers = <<>>
    /\ delta_out = NotRun
    /\ category_stats = <<>>
    /\ weights = <<>>
    /\ scores = NotRun
    /\ confidence = NotRun
    /\ analysis = NotRun
    /\ sheet_rows = <<>>
    /\ parsed = NotRun

NextReport == generate_report

SpecReport == InitReport /\ [][NextReport]_vars

(***************************************************************************)
(* generate_delta and analyze_assessment run on the same snapshots: the    *)
(* summary is made of one of the two assessment files the delta report     *)
(* compares.                                                               *)
(***************************************************************************)
NoEntry == <<"<no entry>">>

CompareQidOrder == <<qAAAI01, qAAAI011, qAAAI02>>

\* the answer of each id in a snapshot, or no entry for the id
CompareChoices ==
    <<{NoEntry, sYes, sNo, sNSlashA, sNoPadded},
      {NoEntry, sYes, sNo},
      {NoEntry, sYes, sNo, sNSlashA}>>

RECURSIVE CompareDict(_, _)
CompareDict(f, i) ==
    IF i > Len(CompareQidOrder) THEN <<>>
    ELSE (IF f[i] = NoEntry THEN <<>>
          ELSE <<<<CompareQidOrder[i], AnswerRecord(f[i])>>>>)
         \o CompareDict(f, i + 1)

CompareSnapshots ==
    {CompareDict(f, 1) :
        f \in {g \in [1..3 -> {NoEntry, sYes, sNo, sNSlashA, sNoPadded}] :
                  \A i \in 1..3 : g[i] \in CompareChoices[i]}}

InitCompare ==
    /\ before_answers \in CompareSnapshots
    /\ after_answers \in CompareSnapshots
    /\ assessment \in {before_answers, after_answers}
    /\ delta_out = NotRun
    /\ analysis = NotRun
    /\ confidence = NotRun
    /\ category_stats = <<>>
    /\ weights = <<>>
    /\ scores = NotRun
    /\ sheet_rows = <<>>
    /\ parsed = NotRun
    /\ summary = NotRun
    /\ workbook = <<>>
    /\ report = NotRun

NextCompare == generate_delta \/ analyze_assessment

SpecCompare == InitCompare /\ [][NextCompare]_vars

(***************************************************************************)
(* Properties of generate_delta.                                           *)
(*                                                                         *)
(* The properties restate the inputs on their own terms: the trimmed       *)
(* answer of an id is characterised, not computed by the model's Strip.    *)
(***************************************************************************)
DeltaDone == delta_out.run /\ ~delta_out.raised

\* the ids of the union of both answer maps
UnionIds == Keys(before_answers) \cup Keys(after_answers)

\* s[i..j] is s without its leading and trailing blanks
IsTrimBounds(s, i, j) ==
    /\ \A k \in 1..(i - 1) : s[k] = " "
    /\ \A k \in (j + 1)..Len(s) : s[k] = " "
    /\ i > j \/ (s[i] # " " /\ s[j] # " ")
    /\ i > j => i = 1

\* the trimmed answer of id q in snapshot d; a missing record or a missing
\* answer counts as the empty string
ClaimAnswer(d, q) ==
    LET given == {i \in 1..Len(d) : d[i][1] = q /\ d[i][2].answer # Absent}
        raw == IF given = {} THEN <<>> ELSE d[CHOOSE i \in given : TRUE][2].answer
        ij == CHOOSE p \in (1..(Len(raw) + 1)) \X (0..Len(raw)) :
                  IsTrimBounds(raw, p[1], p[2])
    IN SubSeq(raw, ij[1], ij[2])

B(q) == ClaimAnswer(before_answers, q)
A(q) == ClaimAnswer(after_answers, q)

Range(seq) == {seq[i] : i \in 1..Len(seq)}

NewlyIds == {delta_out.newly_assessed[i][1] : i \in 1..Len(delta_out.newly_assessed)}

\* C1: an id of the union is listed as an improvement iff its trimmed answers
\* go No -> Yes, as a regression iff they go Yes -> No; unchanged_yes counts
\* the ids with Yes on both sides and unchanged_no those with No on both sides.
C1_Transitions ==
    DeltaDone =>
        /\ Range(delta_out.improvements) = {q \in UnionIds : B(q) = sNo /\ A(q) = sYes}
        /\ Range(delta_out.regressions) = {q \in UnionIds : B(q) = sYes /\ A(q) = sNo}
        /\ delta_out.unchanged_yes
             = Cardinality({q \in UnionIds : B(q) = sYes /\ A(q) = sYes})
        /\ delta_out.unchanged_no
             = Cardinality({q \in UnionIds : B(q) = sNo /\ A(q) = sNo})

\* a run that met an improvement, a regression, an unchanged Yes and an
\* unchanged No
C1_Witness ==
    /\ DeltaDone
    /\ Len(delta_out.improvements) >= 1
    /\ Len(delta_out.regressions) >= 1
    /\ delta_out.unchanged_yes >= 1
    /\ delta_out.unchanged_no >= 1

\* C2: an id is recorded as newly assessed, with its after answer, iff its
\* trimmed before answer is "" or "N/A" and its trimmed after answer is Yes or
\* No; with an empty before map the newly-assessed count is the number of
\* Yes/No answers of the after map; "NA" -> Yes/No is not newly assessed.
C2_NewlyAssessed ==
    DeltaDone =>
        /\ NewlyIds = {q \in UnionIds : B(q) \in {sEmpty, sNSlashA} /\ A(q) \in {sYes, sNo}}
        /\ \A i \in 1..Len(delta_out.newly_assessed) :
              delta_out.newly_assessed[i][2] = A(delta_out.newly_assessed[i][1])
        /\ before_answers = <<>> =>
              Len(delta_out.newly_assessed)
                = Cardinality({q \in Keys(after_answers) : A(q) \in {sYes, sNo}})
        /\ \A q \in UnionIds : B(q) = sNA => q \notin NewlyIds

\* a run in which one id went "NA" -> Yes and another id, absent before, was
\* answered and recorded as newly assessed
C2_Witness ==
    /\ DeltaDone
    /\ \E q \in UnionIds : B(q) = sNA /\ A(q) = sYes
    /\ \E q \in NewlyIds : q \notin Keys(before_answers)

\* the transitions that generate_delta classifies
Classified(b, a) ==
    \/ b = sNo /\ a = sYes
    \/ b = sYes /\ a = sNo
    \/ b \in {sEmpty, sNSlashA} /\ a \in {sYes, sNo}
    \/ b = sYes /\ a = sYes
    \/ b = sNo /\ a = sNo

\* C3: an id whose transition is none of No->Yes, Yes->No, {"","N/A"}->{Yes,No},
\* Yes->Yes, No->No is in none of the three lists and in neither counter, and
\* the run completes.
C3_OtherTransitionsIgnored ==
    delta_out.run =>
        /\ ~delta_out.raised
        /\ \A q \in UnionIds :
              ~Classified(B(q), A(q)) =>
                  /\ q \notin Range(delta_out.improvements)
                  /\ q \notin Range(delta_out.regressions)
                  /\ q \notin NewlyIds
        /\ Len(delta_out.improvements) + Len(delta_out.regressions)
             + Len(delta_out.newly_assessed)
             + delta_out.unchanged_yes + delta_out.unchanged_no
             = Cardinality({q \in UnionIds : Classified(B(q), A(q))})

\* a run that met Yes -> N/A and a "No" whose record was removed
C3_Witness ==
    /\ DeltaDone
    /\ \E q \in UnionIds : B(q) = sYes /\ A(q) = sNSlashA
    /\ \E q \in UnionIds : B(q) = sNo /\ q \notin Keys(after_answers)

\* the category of an id as the delta table groups it: the id up to its last "-"
ClaimCategory(q) ==
    IF \E i \in 1..Len(q) : q[i] = "-"
    THEN SubSeq(q, 1, (CHOOSE i \in 1..Len(q) :
                          q[i] = "-" /\ \A j \in (i + 1)..Len(q) : q[j] # "-") - 1)
    ELSE q

UnionCats == {ClaimCategory(q) : q \in UnionIds}

BeforeYes(c) == Cardinality({q \in UnionIds : ClaimCategory(q) = c /\ B(q) = sYes})
BeforeTotal(c) == Cardinality({q \in UnionIds : ClaimCategory(q) = c /\ B(q) \in {sYes, sNo}})
AfterYes(c) == Cardinality({q \in UnionIds : ClaimCategory(q) = c /\ A(q) = sYes})
AfterTotal(c) == Cardinality({q \in UnionIds : ClaimCategory(q) = c /\ A(q) \in {sYes, sNo}})

\* num/den rounded to the nearest integer, half to even, for any sign of num
RoundSigned(num, den) ==
    IF num >= 0 THEN RoundHalfEven(num, den) ELSE 0 - RoundHalfEven(0 - num, den)

\* 100*yes/total as a fraction <<num, den>>, 0 when total is 0
PctFraction(yes, total) == IF total > 0 THEN <<100 * yes, total>> ELSE <<0, 1>>

\* (100*after_yes/after_total) - (100*before_yes/before_total), rounded once
\* to one decimal, in tenths
ExactDeltaRounded(c) ==
    LET a == PctFraction(AfterYes(c), AfterTotal(c))
        b == PctFraction(BeforeYes(c), BeforeTotal(c))
    IN RoundSigned(10 * (a[1] * b[2] - b[1] * a[2]), a[2] * b[2])

\* the difference of the two percentages, each rounded to one decimal first
RoundedPctDelta(c) ==
    LET a == PctFraction(AfterYes(c), AfterTotal(c))
        b == PctFraction(BeforeYes(c), BeforeTotal(c))
    IN RoundSigned(10 * a[1], a[2]) - RoundSigned(10 * b[1], b[2])

C5_TableRows ==
    DeltaDone =>
        /\ {delta_out.rows[i].cat : i \in 1..Len(delta_out.rows)}
             = {c \in UnionCats : /\ BeforeTotal(c) > 0 \/ AfterTotal(c) > 0
                                  /\ RoundedPctDelta(c) # 0}
        /\ \A i, j \in 1..Len(delta_out.rows) :
              i < j => StrLess(delta_out.rows[i].cat, delta_out.rows[j].cat)

\* a table with one row, next to an assessed category whose delta is 0
C5_Witness ==
    /\ DeltaDone
    /\ Len(delta_out.rows) = 1
    /\ \E c \in UnionCats : AfterTotal(c) > 0 /\ BeforeTotal(c) > 0 /\ RoundedPctDelta(c) = 0

\* the two dicts are equal as Python dicts: the same keys, the same records
SameDict(d, e) ==
    /\ Keys(d) = Keys(e)
    /\ \A i \in 1..Len(d), j \in 1..Len(e) : d[i][1] = e[j][1] => d[i][2] = e[j][2]

\* C6: with identical answer maps before and after, the three lists are empty
\* and the table has no row.
C6_IdenticalSnapshots ==
    DeltaDone /\ SameDict(before_answers, after_answers) =>
        /\ delta_out.improvements = <<>>
        /\ delta_out.regressions = <<>>
        /\ delta_out.newly_assessed = <<>>
        /\ delta_out.rows = <<>>

\* identical snapshots of four answers, some of them No
C6_Witness ==
    /\ DeltaDone
    /\ SameDict(before_answers, after_answers)
    /\ Len(before_answers) = 4
    /\ delta_out.unchanged_no >= 1
    /\ delta_out.unchanged_yes >= 1

IsAscending(ids) == \A i, j \in 1..Len(ids) : i < j => StrLess(ids[i], ids[j])

\* the dict d with its keys inserted in ascending order
SortedDict(d) ==
    LET ks == Sorted(Keys(d))
    IN [i \in 1..Len(ks) |-> <<ks[i], DictGet(d, ks[i], EmptyRecord)>>]

\* C7: the three lists are in ascending order of question id, whatever the key
\* order of the two maps: they are the lists of the run on the same maps with
\* their keys inserted in ascending order.
C7_ListsSorted ==
    DeltaDone =>
        /\ IsAscending(delta_out.improvements)
        /\ IsAscending(delta_out.regressions)
        /\ IsAscending([i \in 1..Len(delta_out.newly_assessed) |-> delta_out.newly_assessed[i][1]])
        /\ LET canon == GenerateDeltaResult(SortedDict(before_answers), SortedDict(after_answers))
           IN /\ delta_out.improvements = canon.improvements
              /\ delta_out.regressions = canon.regressions
              /\ delta_out.newly_assessed = canon.newly_assessed

\* two improvements, from maps whose keys were inserted in descending order
C7_Witness ==
    /\ DeltaDone
    /\ Len(delta_out.improvements) >= 2
    /\ Len(before_answers) >= 2 /\ StrLess(before_answers[2][1], before_answers[1][1])
    /\ Len(after_answers) >= 2 /\ StrLess(after_answers[2][1], after_answers[1][1])

(***************************************************************************)
(* Properties of compute_scores.                                           *)
(***************************************************************************)
ScoresDone == scores.run /\ ~scores.raised

\* the entries of the tally map with yes + no > 0
AssessedEntries ==
    {i \in 1..Len(category_stats) :
        category_stats[i][2].yes + category_stats[i][2].no > 0}

\* the weight the table gives the category of entry i, 0 when it has none
EntryWeight(i) ==
    LET hits == {j \in 1..Len(weights) : weights[j][1] = category_stats[i][1]}
    IN IF hits = {} THEN 0 ELSE weights[CHOOSE j \in hits : TRUE][2]

\* the assessed entries of positive weight
WeightedEntries == {i \in AssessedEntries : EntryWeight(i) > 0}

EntryYes(i) == category_stats[i][2].yes
EntryAssessed(i) == category_stats[i][2].yes + category_stats[i][2].no

RECURSIVE SumYes(_)
SumYes(I) ==
    IF I = {} THEN 0
    ELSE LET i == CHOOSE x \in I : TRUE IN EntryYes(i) + SumYes(I \ {i})

RECURSIVE SumAssessed(_)
SumAssessed(I) ==
    IF I = {} THEN 0
    ELSE LET i == CHOOSE x \in I : TRUE IN EntryAssessed(i) + SumAssessed(I \ {i})

RECURSIVE SumWeight(_)
SumWeight(I) ==
    IF I = {} THEN 0
    ELSE LET i == CHOOSE x \in I : TRUE IN EntryWeight(i) + SumWeight(I \ {i})

RECURSIVE ProdAssessed(_)
ProdAssessed(I) ==
    IF I = {} THEN 1
    ELSE LET i == CHOOSE x \in I : TRUE IN EntryAssessed(i) * ProdAssessed(I \ {i})

\* the sum over I of weight * yes / assessed, times ProdAssessed(I)
RECURSIVE SumWeightedYes(_, _)
SumWeightedYes(I, all) ==
    IF I = {} THEN 0
    ELSE LET i == CHOOSE x \in I : TRUE
         IN EntryWeight(i) * EntryYes(i) * ProdAssessed(all \ {i})
              + SumWeightedYes(I \ {i}, all)

\* C8: raw_yes is the sum of yes and raw_assessed the sum of yes + no over the
\* categories with yes + no > 0, whatever their weight, and raw_pct is
\* 100 * raw_yes / raw_assessed rounded to one decimal.
C8_RawSums ==
    ScoresDone =>
        /\ scores.raw_yes = SumYes(AssessedEntries)
        /\ scores.raw_assessed = SumAssessed(AssessedEntries)
        /\ scores.raw_assessed > 0 =>
              scores.raw_pct = RoundSigned(1000 * scores.raw_yes, scores.raw_assessed)

\* two assessed categories, one missing from the weight table and one of
\* weight 0, both in the raw sums
C8_Witness ==
    /\ ScoresDone
    /\ \E i, j \in AssessedEntries :
          /\ category_stats[i][1] \notin Keys(weights)
          /\ category_stats[j][1] \in Keys(weights) /\ EntryWeight(j) = 0
    /\ scores.raw_assessed >= 2
    /\ scores.raw_yes >= 1

C10_NoDivisionByZero ==
    scores.run =>
        /\ ~scores.raised
        /\ AssessedEntries = {} => scores.raw_pct = 0 /\ scores.raw_assessed = 0
        /\ WeightedEntries = {} => scores.weighted_score = 0

\* a tally map whose only assessed category has weight 0, next to a category
\* of positive weight that has no Yes/No answer
C10_Witness ==
    /\ ScoresDone
    /\ AssessedEntries # {}
    /\ WeightedEntries = {}
    /\ \E i \in 1..Len(category_stats) : i \notin AssessedEntries /\ EntryWeight(i) > 0
    /\ scores.weighted_score = 0
    /\ scores.raw_pct > 0

(***************************************************************************)
(* Properties of compute_confidence_adjusted_score.                        *)
(***************************************************************************)
ConfDone == confidence.run /\ ~confidence.raised

\* the positions of the answers whose trimmed value is exactly Yes or No
AssessedAt ==
    {i \in 1..Len(assessment) :
        ClaimAnswer(assessment, assessment[i][1]) \in {sYes, sNo}}

\* the record has an evidence_quality key, whatever it holds
CarriesQuality(rec) == rec.evidence_quality # Absent

\* the record has an evidence_quality that is neither null nor empty
CarriesNonEmptyQuality(rec) ==
    /\ rec.evidence_quality # Absent
    /\ rec.evidence_quality # None
    /\ rec.evidence_quality # <<>>

IsPercentage(tenths) == tenths \in 0..1000

\* C11 as stated: the sentinel -1 is returned if and only if no answer
\* trims to Yes or No, or no answer of the whole map, whatever its answer
\* value, carries an evidence_quality field; otherwise a percentage.
C11_SentinelIffNoQualityAnywhere ==
    ConfDone =>
        /\ confidence.value = Sentinel <=>
              \/ AssessedAt = {}
              \/ \A i \in 1..Len(assessment) : ~CarriesQuality(assessment[i][2])
        /\ confidence.value # Sentinel => IsPercentage(confidence.value)

\* C11 amended: the sentinel -1 is returned if and only if no answer that
\* trims to Yes or No carries a non-empty evidence_quality (in particular
\* when there is no such answer at all); otherwise a percentage.
C11_SentinelIffNoAssessedQuality ==
    ConfDone =>
        /\ confidence.value = Sentinel <=>
              \A i \in AssessedAt : ~CarriesNonEmptyQuality(assessment[i][2])
        /\ confidence.value # Sentinel => IsPercentage(confidence.value)

\* the sentinel although an N/A answer carries a rating and a Yes is assessed
C11_Witness ==
    /\ ConfDone
    /\ confidence.value = Sentinel
    /\ AssessedAt # {}
    /\ \E i \in 1..Len(assessment) :
          /\ i \notin AssessedAt
          /\ assessment[i][2].evidence_quality = sStrong

\* v is an integer nearest to num/den
IsNearest(v, num, den) ==
    /\ 2 * (v * den - num) <= den
    /\ 2 * (num - v * den) <= den

\* the credit of a rating, in quarters: 1.0, 0.75, 0.5, 0.25, else 0.5
RatingCredit(eq) ==
    CASE eq = sStrong -> 4
      [] eq = sModerate -> 3
      [] eq = sWeak -> 2
      [] eq = sInferred -> 1
      [] OTHER -> 2

\* contribution as stated: a No gives 0; a Yes gives 1.0 only when the
\* record has no evidence_quality at all, and the credit of its value else
StatedContribution(i) ==
    IF ClaimAnswer(assessment, assessment[i][1]) # sYes THEN 0
    ELSE IF ~CarriesQuality(assessment[i][2]) THEN 4
    ELSE RatingCredit(assessment[i][2].evidence_quality)

\* contribution amended: a null or empty evidence_quality counts as none
ActualContribution(i) ==
    IF ClaimAnswer(assessment, assessment[i][1]) # sYes THEN 0
    ELSE IF ~CarriesNonEmptyQuality(assessment[i][2]) THEN 4
    ELSE RatingCredit(assessment[i][2].evidence_quality)

\* the sum of c[i] over the positions in S
RECURSIVE SumAt(_, _)
SumAt(S, c) ==
    IF S = {} THEN 0
    ELSE LET i == CHOOSE x \in S : TRUE IN c[i] + SumAt(S \ {i}, c)

\* C12 as stated: a result other than the sentinel is 100 * (sum of the
\* contributions) / (number of Yes/No answers), to one decimal, a Yes
\* contributing 1.0 / 0.75 / 0.5 / 0.25 for Strong / Moderate / Weak /
\* Inferred, 0.5 for any other evidence_quality value and 1.0 when it has no
\* evidence_quality at all, a No contributing 0.
C12_StatedContributions ==
    ConfDone /\ confidence.value # Sentinel =>
        IsNearest(confidence.value,
                  1000 * SumAt(AssessedAt, [i \in AssessedAt |-> StatedContribution(i)]),
                  4 * Cardinality(AssessedAt))

\* C12 amended: the same quotient, a Yes contributing 0.5 for any other
\* non-empty evidence_quality value and 1.0 when its evidence_quality is
\* missing, null or the empty string.
C12_ActualContributions ==
    ConfDone /\ confidence.value # Sentinel =>
        IsNearest(confidence.value,
                  1000 * SumAt(AssessedAt, [i \in AssessedAt |-> ActualContribution(i)]),
                  4 * Cardinality(AssessedAt))

\* a percentage computed from a Yes with an empty or null evidence_quality
\* and a Yes with a rating the map does not know
C12_Witness ==
    /\ ConfDone
    /\ confidence.value # Sentinel
    /\ \E i, j \in AssessedAt :
          /\ ClaimAnswer(assessment, assessment[i][1]) = sYes
          /\ assessment[i][2].evidence_quality \in {None, <<>>}
          /\ ClaimAnswer(assessment, assessment[j][1]) = sYes
          /\ assessment[j][2].evidence_quality = sHigh

\* the answers are a Strong Yes, a Moderate Yes, a Weak Yes and a Strong No,
\* in some order
IsMixedQualityExample ==
    /\ Len(assessment) = 4
    /\ \E p \in [1..4 -> 1..4] :
          /\ \A i, j \in 1..4 : i # j => p[i] # p[j]
          /\ assessment[p[1]][2] = QualityRecord(sYes, sStrong)
          /\ assessment[p[2]][2] = QualityRecord(sYes, sModerate)
          /\ assessment[p[3]][2] = QualityRecord(sYes, sWeak)
          /\ assessment[p[4]][2] = QualityRecord(sNo, sStrong)

\* C13: for the answers {Strong Yes, Moderate Yes, Weak Yes, Strong No} the
\* result is exactly 56.2: 56.25 is rounded to 56.2, not to 56.3.
C13_MixedQualityExample ==
    ConfDone /\ IsMixedQualityExample => confidence.value = 562

C13_Witness == ConfDone /\ IsMixedQualityExample /\ confidence.value = 562

(***************************************************************************)
(* Properties of analyze_assessment.                                       *)
(***************************************************************************)
AnalysisDone == analysis.run /\ ~analysis.raised

AnswerIds == Keys(assessment)

\* the trimmed answer of id q in the analysed map
Ans(q) == ClaimAnswer(assessment, q)

\* the record of id q in the analysed map
Rec(q) == assessment[CHOOSE i \in 1..Len(assessment) : assessment[i][1] = q][2]

\* the ids tallied under category cat
IdsOf(cat) == {q \in AnswerIds : ClaimCategory(q) = cat}

\* the fix_type a No answer is counted under
ClaimFixType(q) == IF Rec(q).fix_type = Absent THEN sUnknown ELSE Rec(q).fix_type

TallyOf(cat) == DictGet(analysis.categories, cat, NewTally)

HistogramOf(cat) == {TallyOf(cat).fix_types[i] : i \in 1..Len(TallyOf(cat).fix_types)}

\* C14: each answer is classified by exact, case-sensitive comparison of
\* its trimmed answer: "Yes" counts as yes; "No" counts as no, puts the id in
\* the gaps of its category and counts in fix_types under the record's
\* fix_type ("unknown" without one); "N/A" and "NA" count as na; anything
\* else, empty and missing included, counts as blank; each answer counts in
\* exactly one of the four counters.
C14_Classification ==
    AnalysisDone =>
        /\ Keys(analysis.categories) = {ClaimCategory(q) : q \in AnswerIds}
        /\ \A cat \in Keys(analysis.categories) :
              LET t == TallyOf(cat)
                  noIds == {q \in IdsOf(cat) : Ans(q) = sNo}
              IN /\ t.yes = Cardinality({q \in IdsOf(cat) : Ans(q) = sYes})
                 /\ t.no = Cardinality(noIds)
                 /\ t.na = Cardinality({q \in IdsOf(cat) : Ans(q) \in {sNSlashA, sNA}})
                 /\ t.blank = Cardinality({q \in IdsOf(cat) :
                                  Ans(q) \notin {sYes, sNo, sNSlashA, sNA}})
                 /\ t.yes + t.no + t.na + t.blank = Cardinality(IdsOf(cat))
                 /\ Range(t.gaps) = noIds
                 /\ Len(t.gaps) = Cardinality(noIds)
                 /\ HistogramOf(cat) =
                       {<<ClaimFixType(q),
                          Cardinality({r \in noIds : ClaimFixType(r) = ClaimFixType(q)})>> :
                        q \in noIds}
                 /\ Len(t.fix_types) = Cardinality(HistogramOf(cat))

\* a lower-case "yes" counted as blank next to a padded " No " counted as a
\* gap, and an "NA" counted as na next to a No without fix_type
C14_Witness ==
    /\ AnalysisDone
    /\ \/ \E p, q \in AnswerIds :
             /\ Rec(p).answer = sYesLower
             /\ Rec(q).answer = sNoPadded
             /\ ClaimCategory(p) = ClaimCategory(q)
             /\ TallyOf(ClaimCategory(p)).blank = 1
             /\ TallyOf(ClaimCategory(p)).gaps = <<q>>
       \/ \E p, q \in AnswerIds :
             /\ Rec(p).answer = sNA
             /\ Rec(q) = AnswerRecord(sNo)
             /\ ClaimCategory(p) = ClaimCategory(q)
             /\ TallyOf(ClaimCategory(p)).na = 1
             /\ TallyOf(ClaimCategory(p)).fix_types = <<<<sUnknown, 1>>>>

\* the reorderings of a dict
Reorderings(d) ==
    {[i \in 1..Len(d) |-> d[p[i]]] :
        p \in {f \in [1..Len(d) -> 1..Len(d)] :
                  \A i, j \in 1..Len(d) : i # j => f[i] # f[j]}}

\* a tally map without its gaps lists and without any order
CountsOf(categories) ==
    {<<categories[i][1],
       [yes |-> categories[i][2].yes, no |-> categories[i][2].no,
        na |-> categories[i][2].na, blank |-> categories[i][2].blank],
       Range(categories[i][2].fix_types)>> : i \in 1..Len(categories)}

\* C15: every reordering of the same answer map gives the same counters and
\* the same fix_types histogram for every category, and the gaps list of a
\* category is the input order restricted to the "No" ids of that category.
C15_OrderIndependence ==
    AnalysisDone =>
        /\ \A d \in Reorderings(assessment) :
              CountsOf(AnalyzeResult(d).categories) = CountsOf(analysis.categories)
        /\ \A cat \in Keys(analysis.categories) :
              TallyOf(cat).gaps =
                  SelectSeq(KeySeq(assessment),
                            LAMBDA q : ClaimCategory(q) = cat /\ Ans(q) = sNo)

\* four answers whose gaps come out in input order, which is not id order
C15_Witness ==
    /\ AnalysisDone
    /\ Len(assessment) = 4
    /\ TallyOf(sAAAI).gaps = <<qAAAI02, qAAAI01>>
    /\ Len(analysis.categories) >= 2

\* the first separator of the id, if it has one
FirstDash(q) == CHOOSE i \in 1..Len(q) : q[i] = "-" /\ \A j \in 1..(i - 1) : q[j] # "-"

\* id.split("-")[0]: the category of the id in the question catalog
CatalogCategory(q) ==
    IF \E i \in 1..Len(q) : q[i] = "-" THEN SubSeq(q, 1, FirstDash(q) - 1) ELSE q

\* C16: every id that is an answer key is tallied under id.split("-")[0],
\* the category parse_hecvat gives that id: the tally map has exactly these
\* categories and each one counts exactly the ids with that prefix.
C16_TalliedUnderCatalogCategory ==
    AnalysisDone =>
        /\ \A q \in AnswerIds : CatalogCategory(q) = Prefix(q)
        /\ Keys(analysis.categories) = {Prefix(q) : q \in AnswerIds}
        /\ \A cat \in Keys(analysis.categories) :
              LET t == TallyOf(cat)
              IN t.yes + t.no + t.na + t.blank =
                    Cardinality({q \in AnswerIds : Prefix(q) = cat})

(***************************************************************************)
(* Properties of parse_hecvat.                                             *)
(***************************************************************************)
ParseDone == parsed.run

Questions == parsed.questions

\* the cell holds a string
IsText(cell) == cell # None /\ cell # IntCell

ContainsDash(cell) == \E i \in 1..Len(cell) : cell[i] = "-"

\* the flag by ordered evaluation: never-assessable prefix, then explicit
\* id, then assessable prefix, then the default
OrderedFlag(id) ==
    IF CatalogCategory(id) \in NEVER_ASSESSABLE_PREFIXES THEN FALSE
    ELSE IF id \in REPO_ASSESSABLE_IDS THEN TRUE
    ELSE IF CatalogCategory(id) \in REPO_ASSESSABLE_PREFIXES THEN TRUE
    ELSE FALSE

\* the flag by the combined test of the code
CombinedFlag(id) ==
    /\ CatalogCategory(id) \notin NEVER_ASSESSABLE_PREFIXES
    /\ \/ CatalogCategory(id) \in REPO_ASSESSABLE_PREFIXES
       \/ id \in REPO_ASSESSABLE_IDS

\* C17: repo_assessable of every question follows the precedence: false for
\* a never-assessable prefix whatever the other tables say, else true for an
\* explicitly listed id, else true for an assessable prefix, else false; the
\* combined test (prefix set or explicit id) gives the same flag.
C17_RepoAssessablePrecedence ==
    ParseDone =>
        \A i \in 1..Len(Questions) :
            /\ Questions[i].repo_assessable = OrderedFlag(Questions[i].id)
            /\ Questions[i].repo_assessable = CombinedFlag(Questions[i].id)

\* an explicitly listed id, a never-assessable id and an unlisted id of the
\* same prefix as the listed one, parsed together
C17_Witness ==
    /\ ParseDone
    /\ \E i, j, k \in 1..Len(Questions) :
          /\ Questions[i].id = qDOCU05 /\ Questions[i].repo_assessable
          /\ Questions[j].id = qGNRL01 /\ ~Questions[j].repo_assessable
          /\ Questions[k].id = qDOCU01 /\ ~Questions[k].repo_assessable

\* C18: the category of every emitted question is the part of its id before
\* the first "-".
C18_CategoryIsPrefix ==
    ParseDone =>
        \A i \in 1..Len(Questions) :
            Questions[i].category = CatalogCategory(Questions[i].id)

\* an id with two separators emitted with the part before the first one
C18_Witness ==
    /\ ParseDone
    /\ \E i \in 1..Len(Questions) :
          Questions[i].id = qAAAI011 /\ Questions[i].category = sAAAI

\* an id without separator, or with nothing before its first separator
IsMalformedId(cell) ==
    /\ IsText(cell)
    /\ cell # <<>>
    /\ ~ContainsDash(cell) \/ cell[1] = "-"

\* C19 as stated: an id without separator or with an empty prefix makes the
\* parse fail with an error passed to the caller; it is neither classified
\* nor dropped silently.
C19_MalformedIdRaises ==
    ParseDone /\ (\E i \in 1..Len(sheet_rows) : IsMalformedId(sheet_rows[i])) =>
        parsed.raised

\* C19 amended: the parse raises no error on a malformed id; the rows whose
\* id cell is empty, not a string or without separator yield no question
\* (the questions are the other rows, in sheet order), and an id with an
\* empty prefix is emitted with category "" and repo_assessable false.
C19_MalformedIdSkippedOrEmitted ==
    ParseDone =>
        /\ ~parsed.raised
        /\ [i \in 1..Len(Questions) |-> Questions[i].id] =
              SelectSeq(sheet_rows, LAMBDA cell : IsText(cell) /\ ContainsDash(cell))
        /\ \A i \in 1..Len(Questions) :
              Questions[i].id[1] = "-" =>
                  Questions[i].category = <<>> /\ ~Questions[i].repo_assessable

\* a sheet with a separator-less id, which is dropped, and an id with an
\* empty prefix, which is emitted
C19_Witness ==
    /\ ParseDone
    /\ \E i \in 1..Len(sheet_rows) : sheet_rows[i] = sAAAI
    /\ \E i \in 1..Len(Questions) : Questions[i].id = qDash01
    /\ \A i \in 1..Len(Questions) : Questions[i].id # sAAAI

\* C20: no question id occurs twice in the questions array, whatever the
\* rows of the sheet are.
C20_QuestionIdsUnique ==
    ParseDone =>
        \A i, j \in 1..Len(Questions) :
            i # j => Questions[i].id # Questions[j].id

(***************************************************************************)
(* Properties of the summary and delta pipeline on degenerate answer data. *)
(***************************************************************************)
\* C21: analyze_assessment completes with a defined result and raises no
\* error on degenerate answer data, an answer record whose answer is null
\* (treated as blank) included.
C21_NeverRaisesOnDegenerateData ==
    analysis.run => ~analysis.raised

RECURSIVE SumValues(_)
\* the sum of the values of a dict
SumValues(d) == IF d = <<>> THEN 0 ELSE Head(d)[2] + SumValues(Tail(d))

CounterSum(t) == t.yes + t.no + t.na + t.blank

RECURSIVE SumCounters(_)
SumCounters(categories) ==
    IF categories = <<>> THEN 0
    ELSE CounterSum(Head(categories)[2]) + SumCounters(Tail(categories))

NoDuplicates(s) == \A i, j \in 1..Len(s) : i # j => s[i] # s[j]

\* C27: for every category analyze_assessment returns, the four counters sum
\* to the number of answers tallied under the category, which is at least
\* one; over all categories they sum to the number of answers; the gaps list
\* is as long as the no counter and holds no id twice; the counts of the
\* fix_types histogram sum to the no counter.
C27_TallyConsistency ==
    AnalysisDone =>
        /\ \A i \in 1..Len(analysis.categories) :
              LET cat == analysis.categories[i][1]
                  t == analysis.categories[i][2]
              IN /\ CounterSum(t) = Cardinality(IdsOf(cat))
                 /\ CounterSum(t) >= 1
                 /\ Len(t.gaps) = t.no
                 /\ NoDuplicates(t.gaps)
                 /\ SumValues(t.fix_types) = t.no
        /\ NoDuplicates(KeySeq(analysis.categories))
        /\ SumCounters(analysis.categories) = Len(assessment)

\* several categories, one of them with two No answers of the same fix_type
C27_Witness ==
    /\ AnalysisDone
    /\ Len(analysis.categories) >= 2
    /\ \E i \in 1..Len(analysis.categories) :
          /\ analysis.categories[i][2].no = 2
          /\ Len(analysis.categories[i][2].fix_types) = 1

(***************************************************************************)
(* The partition generate_delta makes of the ids.                          *)
(***************************************************************************)
\* how many of the five tracked classes hold for a pair of trimmed answers
TrackedClasses(b, a) ==
    {k \in 1..5 :
        \/ k = 1 /\ b = sNo /\ a = sYes
        \/ k = 2 /\ b = sYes /\ a = sNo
        \/ k = 3 /\ b \in {sEmpty, sNSlashA} /\ a \in {sYes, sNo}
        \/ k = 4 /\ b = sYes /\ a = sYes
        \/ k = 5 /\ b = sNo /\ a = sNo}

\* the number of the lists of the result that hold id q
ListsHolding(q) ==
    Cardinality({k \in 1..3 :
        \/ k = 1 /\ q \in Range(delta_out.improvements)
        \/ k = 2 /\ q \in Range(delta_out.regressions)
        \/ k = 3 /\ q \in NewlyIds})

TrackedTotal ==
    Len(delta_out.improvements) + Len(delta_out.regressions)
      + Len(delta_out.newly_assessed) + delta_out.unchanged_yes
      + delta_out.unchanged_no

\* C25: every id of the union is in exactly one of the six classes
\* improvement, regression, newly assessed, unchanged Yes, unchanged No and
\* untracked; the three lists are pairwise disjoint and hold no id twice;
\* the three list lengths and the two counters sum to at most the size of
\* the union, the rest being the untracked ids.
C25_Partition ==
    DeltaDone =>
        /\ \A q \in UnionIds :
              /\ Cardinality(TrackedClasses(B(q), A(q))) <= 1
              /\ ListsHolding(q) <= 1
              /\ ListsHolding(q) = 1 => TrackedClasses(B(q), A(q)) \subseteq 1..3
        /\ NoDuplicates(delta_out.improvements)
        /\ NoDuplicates(delta_out.regressions)
        /\ NoDuplicates(KeySeq(delta_out.newly_assessed))
        /\ TrackedTotal <= Cardinality(UnionIds)
        /\ TrackedTotal
             = Cardinality({q \in UnionIds : TrackedClasses(B(q), A(q)) # {}})

\* an id of each list next to an untracked one
C25_Witness ==
    /\ DeltaDone
    /\ TrackedTotal < Cardinality(UnionIds)
    /\ Len(delta_out.improvements) + Len(delta_out.regressions)
         + Len(delta_out.newly_assessed) >= 2

(***************************************************************************)
(* Properties of generate_delta against itself and against the summary.    *)
(***************************************************************************)
\* the delta report of the same two snapshots in the other direction
Swapped == GenerateDeltaResult(after_answers, before_answers)

\* the delta of each category that has a row in the delta table
RowDeltas(out) == {<<out.rows[i].cat, out.rows[i].delta>> : i \in 1..Len(out.rows)}

\* C26: swapping the before and after snapshots swaps the improvements and
\* regressions lists, leaves unchanged_yes and unchanged_no the same, and
\* negates the delta of every category, the same categories getting a row.
C26_SwapSymmetry ==
    DeltaDone =>
        /\ ~Swapped.raised
        /\ Swapped.improvements = delta_out.regressions
        /\ Swapped.regressions = delta_out.improvements
        /\ Swapped.unchanged_yes = delta_out.unchanged_yes
        /\ Swapped.unchanged_no = delta_out.unchanged_no
        /\ RowDeltas(Swapped) = {<<r[1], -r[2]>> : r \in RowDeltas(delta_out)}
        /\ Len(Swapped.rows) = Len(delta_out.rows)

\* an improvement, a regression and an unchanged answer with a delta row
C26_Witness ==
    /\ DeltaDone
    /\ Len(delta_out.improvements) = 1
    /\ Len(delta_out.regressions) = 1
    /\ delta_out.unchanged_yes + delta_out.unchanged_no = 1
    /\ Len(delta_out.rows) >= 1

\* the per-category counts of the delta report, zero for a category the
\* second loop never touched
CatDeltaOf(cat) ==
    IF cat \in DOMAIN delta_out.cat_deltas THEN delta_out.cat_deltas[cat] ELSE ZeroDelta

\* the percentage the summary shows for a tally, in tenths
SummaryPct(t) ==
    IF t.yes + t.no > 0 THEN RoundSigned(1000 * t.yes, t.yes + t.no) ELSE 0

ComparedCats == (DOMAIN delta_out.cat_deltas) \cup Keys(analysis.categories)

\* C30: for every category, after_yes and after_total of the delta report
\* are the yes counter and yes + no of the tally analyze_assessment makes of
\* the after snapshot, and likewise on the before side, so the percentages
\* of a delta row are the per-category percentages of the summary.
C30_DeltaCountsAreSummaryTallies ==
    DeltaDone /\ AnalysisDone =>
        /\ assessment = after_answers =>
              /\ \A cat \in ComparedCats :
                    /\ CatDeltaOf(cat).after_yes = TallyOf(cat).yes
                    /\ CatDeltaOf(cat).after_total = TallyOf(cat).yes + TallyOf(cat).no
              /\ \A i \in 1..Len(delta_out.rows) :
                    delta_out.rows[i].a_pct = SummaryPct(TallyOf(delta_out.rows[i].cat))
        /\ assessment = before_answers =>
              /\ \A cat \in ComparedCats :
                    /\ CatDeltaOf(cat).before_yes = TallyOf(cat).yes
                    /\ CatDeltaOf(cat).before_total = TallyOf(cat).yes + TallyOf(cat).no
              /\ \A i \in 1..Len(delta_out.rows) :
                    delta_out.rows[i].b_pct = SummaryPct(TallyOf(delta_out.rows[i].cat))

\* a delta row of a category with an N/A answer and a padded " No " in the
\* analysed snapshot, next to the category of an id with two separators
C30_Witness ==
    /\ DeltaDone /\ AnalysisDone
    /\ assessment = after_answers
    /\ before_answers # after_answers
    /\ \E i \in 1..Len(delta_out.rows) :
          /\ delta_out.rows[i].cat = sAAAI
          /\ TallyOf(sAAAI).na = 1
          /\ TallyOf(sAAAI).no = 1
          /\ delta_out.rows[i].after_total = 1
    /\ Len(analysis.categories) = 2

(***************************************************************************)
(* Determinism of the scores.                                              *)
(***************************************************************************)
\* C22: the result of compute_scores does not depend on the iteration order
\* of the tally map: every reordering of the same tallies gives the same
\* result.
C22_ScoresIndependentOfOrder ==
    ScoresDone =>
        \A d \in Reorderings(category_stats) :
            ComputeScoresResult(d, weights) = scores

(***************************************************************************)
(* Properties of generate_summary.                                         *)
(***************************************************************************)
SummaryDone == summary.run /\ ~summary.raised

\* C28: a confidence-adjusted score other than the sentinel -1 lies between
\* 0 and 100 and is at most raw_pct of the scores computed from the same
\* assessment; the sentinel is the only negative value, and the only value
\* for which the report has no confidence row.
C28_ConfidenceBelowRaw ==
    SummaryDone =>
        /\ summary.conf_score < 0 => summary.conf_score = Sentinel
        /\ summary.conf_score # Sentinel =>
              /\ 0 <= summary.conf_score /\ summary.conf_score <= 1000
              /\ summary.conf_score <= summary.raw_pct
        /\ summary.confidence_row <=> summary.conf_score # Sentinel

\* a weakly rated Yes next to a rated No: 25.0 against a raw 50.0
C28_Witness ==
    /\ SummaryDone
    /\ summary.conf_score = 250
    /\ summary.raw_pct = 500
    /\ summary.confidence_row

\* the No answers of the assessment the summary is made of
NoAnswerIds == {q \in AnswerIds : Ans(q) = sNo}

\* C29: in the "Gaps by Fix Type" table the counts of the displayed rows sum
\* to the number of "No" answers, and "Total patchable" is the number of "No"
\* answers whose fix_type is code, config or new_file, whatever the fix_type
\* values are.
C29_FixTypeRowsSumToGaps ==
    SummaryDone /\ summary.fix_table.shown =>
        /\ SumValues(summary.fix_table.rows) = Cardinality(NoAnswerIds)
        /\ summary.fix_table.patchable
             = Cardinality({q \in NoAnswerIds :
                              ClaimFixType(q) \in {sCode, sConfig, sNewFile}})

(***************************************************************************)
(* Properties of generate_report.                                          *)
(***************************************************************************)
ReportDone == report.run /\ ~report.raised

ResponseSheetNames == Range(response_sheets)

TemplateRows(name) == DictGet(workbook, name, <<>>)

SavedRows(name) == DictGet(report.sheets, name, <<>>)

\* the row is a question row whose id has an answer record
IsAnsweredRow(name, r) ==
    /\ name \in ResponseSheetNames
    /\ IsQuestionCell(TemplateRows(name)[r].a)
    /\ HasKey(assessment, Strip(TemplateRows(name)[r].a))

RecordOfRow(name, r) == DictGet(assessment, Strip(TemplateRows(name)[r].a), EmptyRecord)

\* a value that is present, not null and not the empty string
NonEmpty(v) == v \notin {Absent, None, sEmpty}

\* what column D is to hold for a record, the empty string for no write
ExpectedInfo(ans) ==
    IF NonEmpty(ans.additional_info) /\ NonEmpty(ans.evidence)
    THEN ans.additional_info \o <<"\n", "\n", "E", "v", "i", "d", "e", "n", "c", "e", ":", " ">>
           \o ans.evidence
    ELSE IF NonEmpty(ans.evidence)
    THEN <<"E", "v", "i", "d", "e", "n", "c", "e", ":", " ">> \o ans.evidence
    ELSE IF NonEmpty(ans.additional_info) THEN ans.additional_info
    ELSE sEmpty

\* the row was filled from its record: C holds the answer if it is non-empty
\* and D the expected text if there is one, else they are as in the template
RowFilled(name, r) ==
    LET ans == RecordOfRow(name, r)
        was == TemplateRows(name)[r]
        now == SavedRows(name)[r]
    IN /\ now.c = IF NonEmpty(ans.answer) THEN ans.answer ELSE was.c
       /\ now.d = IF ExpectedInfo(ans) # sEmpty THEN ExpectedInfo(ans) ELSE was.d

\* C23: every question row of a response sheet whose id has an answer record
\* gets the record's answer in column C exactly when the answer is non-empty,
\* and in column D "<additional_info>\n\nEvidence: <evidence>", "Evidence:
\* <evidence>" or additional_info according to which of the two are
\* non-empty, nothing when both are empty; missing and null values count as
\* empty.
C23_AnsweredRowsFilled ==
    ReportDone =>
        \A name \in Keys(workbook) :
            \A r \in 1..Len(TemplateRows(name)) :
                IsAnsweredRow(name, r) => RowFilled(name, r)

\* the row of START HERE that receives the date, 0 if there is none
ClaimDateRow ==
    LET rows == TemplateRows("START HERE")
        hits == {r \in 1..Len(rows) :
                    /\ r <= 9
                    /\ rows[r].a \notin {None, sEmpty, IntCell}
                    /\ \E i \in 1..(Len(rows[r].a) - Len(sDateCompleted) + 1) :
                          SubSeq(rows[r].a, i, i + Len(sDateCompleted) - 1) = sDateCompleted}
    IN IF hits = {} THEN 0 ELSE CHOOSE r \in hits : \A h \in hits : r <= h

\* C24: generate_report changes only columns C and D of rows whose column-A
\* id has a record in the answers map, and column C of the Date Completed row
\* of START HERE; every other row and every sheet that is no response sheet
\* is as in the template; the saved workbook has the template's sheets; an
\* answer id that is on no sheet is skipped without error; an id that is on
\* several response sheets is filled on each of them.
C24_OnlyAnsweredRowsChange ==
    report.run =>
        /\ ~report.raised
        /\ KeySeq(report.sheets) = KeySeq(workbook)
        /\ \A name \in Keys(workbook) :
              /\ Len(SavedRows(name)) = Len(TemplateRows(name))
              /\ \A r \in 1..Len(TemplateRows(name)) :
                    LET was == TemplateRows(name)[r]
                        now == SavedRows(name)[r]
                    IN /\ now.a = was.a
                       /\ now # was =>
                             \/ IsAnsweredRow(name, r)
                             \/ /\ name = "START HERE" /\ r = ClaimDateRow
                                /\ now.d = was.d
                                /\ now.c \in Dates
        /\ \A q \in Keys(assessment) :
              \A name \in Keys(workbook) \cap ResponseSheetNames :
                  (\E r \in 1..Len(TemplateRows(name)) :
                      IsAnsweredRow(name, r) /\ Strip(TemplateRows(name)[r].a) = q)
                  => \E r \in 1..Len(TemplateRows(name)) :
                        /\ IsAnsweredRow(name, r)
                        /\ Strip(TemplateRows(name)[r].a) = q
                        /\ RowFilled(name, r)

\* AAAI-01 filled on START HERE and on Organization, next to an unanswered
\* row, the date row and an answer id that is on no sheet
C24_Witness ==
    /\ ReportDone
    /\ HasKey(assessment, qZZZZ99)
    /\ HasKey(workbook, "START HERE")
    /\ DictGet(assessment, qAAAI01, EmptyRecord) = ReportRecord(sYes, sInfo, sProof)
    /\ SavedRows("START HERE")[3].c = sYes
    /\ SavedRows("START HERE")[2].c \in Dates
    /\ \E r \in 1..Len(SavedRows("Organization")) :
          /\ SavedRows("Organization")[r].a = qAAAI01
          /\ SavedRows("Organization")[r].c = sYes
          /\ SavedRows("Organization")[r].d # sOld
    /\ \E r \in 1..Len(SavedRows("Organization")) :
          SavedRows("Organization")[r] = Row(qAAAI02, sOld, sOld)
    /\ SavedRows("Summary") = SummarySheetRows
    /\ report.filled_count = 2

====
